---- MODULE Spec2Model ----
(***************************************************************************)
(* Shape synthesis and caching engine of the drawing editor: the          *)
(* ShapeCache, the rough-option builder, the arrowhead step and the shape *)
(* generator, as state machine plus pure operators.                       *)
(*                                                                         *)
(* Numbers that the code computes in fractions (stroke widths, dash       *)
(* lengths, roughness) are held in sixths: 6 stands for 1, 3 for 0.5,     *)
(* 9 for 1.5, 15 for 2.5.  A missing value (undefined) of a string field  *)
(* is "undefined", of a dash pattern the empty sequence, and null is      *)
(* "null".                                                                 *)
(***************************************************************************)
EXTENDS Integers, Sequences, FiniteSets, TLC

VARIABLES
  elements,    \* element identity -> the element's current fields
  cache,       \* ShapeCache.cache: element identity -> entry
  canvasCache, \* elementWithCanvasCache: identities that hold a bitmap entry
  last,        \* the last operation performed: what it was given, returned and did
  origin,      \* per identity: how the present cache entry came to be stored
  stored,      \* per identity: the value last stored and not deleted since
  arrowIn,     \* input of the arrow generation run: element and canvas background
  arrowOut,    \* result of the arrow generation run
  callIn,      \* argument of a single call of one of the pure generators
  callOut,     \* what that call returned, with the position of the caller
  appState     \* the application state the presentation actions work on

vars ==
  <<elements, cache, canvasCache, last, origin, stored, arrowIn, arrowOut,
    callIn, callOut,
    appState>>

Min(a, b) == IF a <= b THEN a ELSE b
Max(a, b) == IF a >= b THEN a ELSE b
Abs(a) == IF a < 0 THEN -a ELSE a

----------------------------------------------------------------------------
(* Bounds of the model *)

\* number of element identities in the scene
NumElements == 2

Ids == 1..NumElements

\* most points of a straight line handed to the arrow generation
MaxPoints == 2

\* how far beyond the elbow sanity bound the coordinates tried reach
Overshoot == 1

\* binary digits after the point of the floating point numbers
FracBits == 2

\* significant binary digits of the floating point numbers
MantissaBits == 3

\* largest width and height of a box, in steps of 2^-FracBits
MaxSide == 64

\* number of segments of an orthogonal route handed to the elbow builder
ElbowSegments == 3

\* most points of a line handed to the polygon toggle
MaxTogglePoints == 5

\* most elements of a scene that is presented
MaxSceneElements == 3

----------------------------------------------------------------------------
(* Values *)

StrokeStyles == {"solid", "dashed", "dotted"}

\* element.roughness, in sixths (architect 0, artist 1, cartoonist 2)
Roughnesses == {0, 6, 12}

\* ROUGHNESS.cartoonist, in sixths
ROUGHNESS_cartoonist == 12

\* the sanity bound on elbow arrow coordinates
ElbowLimit == 1000000

ArrowheadKinds ==
  {"dot", "circle", "circle_outline", "triangle", "triangle_outline",
   "diamond", "diamond_outline", "crowfoot_one", "bar", "arrow",
   "crowfoot_many", "crowfoot_one_or_many"}

CircleKinds == {"dot", "circle", "circle_outline"}
PolygonKinds == {"triangle", "triangle_outline", "diamond", "diamond_outline"}
WingKinds == {"bar", "arrow", "crowfoot_many", "crowfoot_one_or_many"}

NoGeometryTypes == {"frame", "magicframe", "text", "image"}

White == "#ffffff"

\* COLOR_PALETTE.white, the background of the default render context
\* embedsValidationStatus is null (isNull) or a map, held as the set of the
\* identities it maps to true
NullValidationStatus == [isNull |-> TRUE, validated |-> {}]

DefaultRenderConfig ==
  [isExporting |-> FALSE, canvasBackgroundColor |-> White,
   embedsValidationStatus |-> NullValidationStatus]

----------------------------------------------------------------------------
(* Collaborators *)

isTransparent(color) == color = "transparent"

\* closed-loop test for a point sequence
isPathALoop(points) ==
  Len(points) >= 3 /\ points[1] = points[Len(points)]

isLinearElement(element) == element.type \in {"line", "arrow", "freedraw"}

isElbowArrow(element) == element.type = "arrow" /\ element.elbowed

isIframeElement(element) == element.type = "iframe"
isEmbeddableElement(element) == element.type = "embeddable"
isIframeLikeElement(element) == element.type \in {"iframe", "embeddable"}

canChangeRoundness(type) ==
  type \in {"rectangle", "iframe", "embeddable", "line", "diamond", "image",
            "cube", "rectangularPrism"}

----------------------------------------------------------------------------
(* Rough options *)

getDashArrayDashed(strokeWidth) == <<48, 48 + strokeWidth>>

\* the dotted pattern taken as the dashed one
getDashArrayDotted_AsDashed(strokeWidth) == <<48, 48 + strokeWidth>>

getDashArrayDotted(strokeWidth) == <<9, 36 + strokeWidth>>

\* the roughness halved whatever the size, and not kept
AdjustedRoughness_AlwaysHalved(element, roughness, maxSize, minSize) ==
  Min(roughness \div 2, 15)

AdjustedRoughness(element, roughness, maxSize, minSize) ==
  IF \/ (minSize >= 20 /\ maxSize >= 50)
     \/ (minSize >= 15 /\ element.roundness
           /\ canChangeRoundness(element.type))
     \/ (isLinearElement(element) /\ maxSize >= 50)
  THEN roughness
  ELSE Min(roughness \div (IF maxSize < 10 THEN 3 ELSE 2), 15)

adjustRoughness(element) ==
  AdjustedRoughness(element, element.roughness,
                    Max(element.width, element.height),
                    Min(element.width, element.height))

\* the options record before the switch on the element type
BaseRoughOptions(element, continuousPath) ==
  [seed |-> element.seed,
   strokeLineDash |->
     IF element.strokeStyle = "dashed"
     THEN getDashArrayDashed(element.strokeWidth)
     ELSE IF element.strokeStyle = "dotted"
          THEN getDashArrayDotted(element.strokeWidth)
          ELSE <<>>,
   disableMultiStroke |-> element.strokeStyle # "solid",
   strokeWidth |->
     IF element.strokeStyle # "solid"
     THEN element.strokeWidth + 3
     ELSE element.strokeWidth,
   fillWeight |-> element.strokeWidth \div 2,
   hachureGap |-> element.strokeWidth * 4,
   roughness |-> adjustRoughness(element),
   stroke |-> element.strokeColor,
   preserveVertices |->
     continuousPath \/ element.roughness < ROUGHNESS_cartoonist,
   fillStyle |-> "undefined",
   fill |-> "undefined",
   curveFitting |-> 0,
   threw |-> FALSE]

\* a switch whose default case returns the options as they are
RoughOptionsSwitch_DefaultReturns(element, options) == options

\* threw = TRUE stands for the "Unimplemented type" error
RoughOptionsSwitch(element, options) ==
      CASE element.type \in
             {"rectangle", "iframe", "embeddable", "diamond", "ellipse"} ->
             [options EXCEPT
                !.fillStyle = element.fillStyle,
                !.fill = IF isTransparent(element.backgroundColor)
                         THEN "undefined"
                         ELSE element.backgroundColor,
                !.curveFitting = IF element.type = "ellipse" THEN 1 ELSE 0]
        [] element.type \in {"cube", "rectangularPrism"} ->
             IF ~isTransparent(element.backgroundColor)
             THEN [options EXCEPT !.fillStyle = element.fillStyle,
                                  !.fill = element.backgroundColor]
             ELSE options
        [] element.type \in {"line", "freedraw"} ->
             IF isPathALoop(element.points)
             THEN [options EXCEPT
                     !.fillStyle = element.fillStyle,
                     !.fill = IF element.backgroundColor = "transparent"
                              THEN "undefined"
                              ELSE element.backgroundColor]
             ELSE options
        [] element.type = "arrow" -> options
        [] OTHER -> [options EXCEPT !.threw = TRUE]

generateRoughOptions(element, continuousPath) ==
  RoughOptionsSwitch(element, BaseRoughOptions(element, continuousPath))

----------------------------------------------------------------------------
(* Drawables: what the sketch generator was asked to draw.  The generator *)
(* copies the options it is given at the call, so a drawable holds the    *)
(* options as they were at that moment.                                   *)

BodyGeom == [position |-> "body", kind |-> "none", seg |-> 0]

Drawable(shape, geom, points, d, options) ==
  [shape |-> shape, geom |-> geom, points |-> points, d |-> d,
   options |-> options]

\* number of points the body primitive holds (none when there is no body)
EffectivePoints(shape) ==
  IF Len(shape) = 0 THEN 0
  ELSE IF shape[1].d # <<>> THEN Len(shape[1].d) ELSE Len(shape[1].points)

\* the arrowhead point resolver: null for a degenerate line
getArrowheadPoints(element, shape, position, arrowhead) ==
  [isNull |-> EffectivePoints(shape) < 2,
   position |-> position, kind |-> arrowhead]

----------------------------------------------------------------------------
(* Arrowheads.  The result holds the primitives and the options object as *)
(* the call leaves it: the caller's object is mutated in place.           *)

generateCrowfootOne(arrowheadPoints, options) ==
  IF arrowheadPoints.isNull
  THEN <<>>
  ELSE << Drawable("line",
                   [position |-> arrowheadPoints.position,
                    kind |-> "crowfoot_one", seg |-> 1],
                   <<>>, <<>>, options) >>

ArrowheadFill(element, arrowhead, outline, canvasBackgroundColor) ==
  IF arrowhead = outline THEN canvasBackgroundColor ELSE element.strokeColor

ArrowheadGeom(position, arrowhead, seg) ==
  [position |-> position, kind |-> arrowhead, seg |-> seg]

\* delete options.strokeLineDash
ClearDash(options) == [options EXCEPT !.strokeLineDash = <<>>]

\* dot, circle, circle_outline; `cleared` is the options with the dash deleted
CircleArrowhead(element, position, arrowhead, cleared, canvasBackgroundColor) ==
  [shapes |->
     << Drawable("circle", ArrowheadGeom(position, arrowhead, 1), <<>>, <<>>,
          [cleared EXCEPT
             !.fill = ArrowheadFill(element, arrowhead, "circle_outline",
                                    canvasBackgroundColor),
             !.fillStyle = "solid",
             !.stroke = element.strokeColor,
             !.roughness = Min(3, cleared.roughness)]) >>,
   options |-> cleared]

\* triangle, triangle_outline, diamond, diamond_outline
PolygonArrowhead(element, position, arrowhead, outline, cleared, canvasBackgroundColor) ==
  [shapes |->
     << Drawable("polygon", ArrowheadGeom(position, arrowhead, 1), <<>>,
          <<>>,
          [cleared EXCEPT
             !.fill = ArrowheadFill(element, arrowhead, outline,
                                    canvasBackgroundColor),
             !.fillStyle = "solid",
             !.roughness = Min(6, cleared.roughness)]) >>,
   options |-> cleared]

\* the dash of a wing cap: tightened dots on a dotted body, none otherwise
WingDash(element, dash) ==
  IF element.strokeStyle = "dotted" THEN <<dash[1], dash[2] - 6>> ELSE <<>>

\* the options object after the wing branch has changed it
WingOptions(element, options) ==
  [options EXCEPT
     !.strokeLineDash =
        WingDash(element, getDashArrayDotted(element.strokeWidth - 6)),
     !.roughness = Min(6, options.roughness)]

\* bar, arrow, crowfoot_many, crowfoot_one_or_many; `o` is the changed options
WingArrowhead(element, shape, position, arrowhead, o) ==
  [shapes |->
     << Drawable("line", ArrowheadGeom(position, arrowhead, 1), <<>>, <<>>,
                 o),
        Drawable("line", ArrowheadGeom(position, arrowhead, 2), <<>>, <<>>,
                 o) >>
     \o (IF arrowhead = "crowfoot_one_or_many"
         THEN generateCrowfootOne(
                getArrowheadPoints(element, shape, position, "crowfoot_one"),
                o)
         ELSE <<>>),
   options |-> o]

\* the switch on the arrowhead kind, for resolved arrowhead points
ArrowheadSwitch(element, shape, position, arrowhead, arrowheadPoints, options, canvasBackgroundColor) ==
  CASE arrowhead \in {"dot", "circle", "circle_outline"} ->
         CircleArrowhead(element, position, arrowhead, ClearDash(options),
                         canvasBackgroundColor)
    [] arrowhead \in {"triangle", "triangle_outline"} ->
         PolygonArrowhead(element, position, arrowhead, "triangle_outline",
                          ClearDash(options), canvasBackgroundColor)
    [] arrowhead \in {"diamond", "diamond_outline"} ->
         PolygonArrowhead(element, position, arrowhead, "diamond_outline",
                          ClearDash(options), canvasBackgroundColor)
    [] arrowhead = "crowfoot_one" ->
         [shapes |-> generateCrowfootOne(arrowheadPoints, options),
          options |-> options]
    [] OTHER ->
         WingArrowhead(element, shape, position, arrowhead,
                       WingOptions(element, options))

\* the step without the return on a null resolution
getArrowheadShapes_NoNullReturn(element, shape, position, arrowhead, options, canvasBackgroundColor) ==
  ArrowheadSwitch(element, shape, position, arrowhead,
    getArrowheadPoints(element, shape, position, arrowhead),
    options, canvasBackgroundColor)

getArrowheadShapes(element, shape, position, arrowhead, options, canvasBackgroundColor) ==
  IF getArrowheadPoints(element, shape, position, arrowhead).isNull
  THEN [shapes |-> <<>>, options |-> options]
  ELSE ArrowheadSwitch(element, shape, position, arrowhead,
         getArrowheadPoints(element, shape, position, arrowhead),
         options, canvasBackgroundColor)

----------------------------------------------------------------------------
(* Elbow path builder.  Path coordinates are in halves (2 stands for 1),  *)
(* since a corner inset is half a segment length.                         *)

\* true when the displacement from o to p is dominated by the x axis
headingForPointIsHorizontal(p, o) ==
  LET x == p[1] - o[1]
      y == p[2] - o[2]
  IN  x > Abs(y) \/ x <= -Abs(y)

\* distance of two points of an orthogonal route, doubled
pointDistance2(a, b) ==
  2 * (Abs(a[1] - b[1]) + Abs(a[2] - b[2]))

PathCmd(cmd, x, y, cx, cy) ==
  [cmd |-> cmd, x |-> x, y |-> y, cx |-> cx, cy |-> cy]

\* the corner inset taken as the radius whatever the segments
ElbowCorner_RadiusOnly(prev, point, next, radius) == 2 * radius

\* the corner inset of an interior vertex, in halves
ElbowCorner(prev, point, next, radius) ==
  Min(2 * radius,
      Min(pointDistance2(point, next) \div 2,
          pointDistance2(point, prev) \div 2))

\* the inset point on the side of neighbour `other` of vertex `point`
ElbowInset(point, other, isHorizontal, corner) ==
  IF isHorizontal
  THEN IF other[1] < point[1] THEN <<2 * point[1] - corner, 2 * point[2]>>
                              ELSE <<2 * point[1] + corner, 2 * point[2]>>
  ELSE IF other[2] < point[2] THEN <<2 * point[1], 2 * point[2] - corner>>
                              ELSE <<2 * point[1], 2 * point[2] + corner>>

\* the three subpoints of a vertex: inset before, vertex, inset after
ElbowTriple(prev, point, next, corner) ==
  << ElbowInset(point, prev, headingForPointIsHorizontal(point, prev),
                corner),
     <<2 * point[1], 2 * point[2]>>,
     ElbowInset(point, next, headingForPointIsHorizontal(next, point),
                corner) >>

\* the three subpoints of interior vertex i
ElbowSubpoints(points, radius, i) ==
  ElbowTriple(points[i - 1], points[i], points[i + 1],
              ElbowCorner(points[i - 1], points[i], points[i + 1], radius))

\* the L command to the inset before the corner, the Q command around it
ElbowLine(sub) == PathCmd("L", sub[1][1], sub[1][2], 0, 0)
ElbowCurve(sub) == PathCmd("Q", sub[3][1], sub[3][2], sub[2][1], sub[2][2])

\* command j of a path of n points with `inner` interior vertices
ElbowCommand(points, radius, n, inner, j) ==
  IF j = 1
  THEN PathCmd("M", 2 * points[1][1], 2 * points[1][2], 0, 0)
  ELSE IF j = 2 * inner + 2
  THEN PathCmd("L", 2 * points[n][1], 2 * points[n][2], 0, 0)
  ELSE IF j % 2 = 0
  THEN ElbowLine(ElbowSubpoints(points, radius, (j \div 2) + 1))
  ELSE ElbowCurve(ElbowSubpoints(points, radius, (j \div 2) + 1))

ElbowPath(points, radius, n, inner) ==
  [j \in 1..(2 * inner + 2) |-> ElbowCommand(points, radius, n, inner, j)]

generateElbowArrowShape(points, radius) ==
  ElbowPath(points, radius, Len(points),
            IF Len(points) > 2 THEN Len(points) - 2 ELSE 0)

----------------------------------------------------------------------------
(* Shape generator *)

\* embedsValidationStatus?.get(element.id) === true
IsValidated(embedsValidationStatus, element) ==
  ~embedsValidationStatus.isNull
    /\ element.id \in embedsValidationStatus.validated

\* returns the record handed to the option builder; the element is not changed
modifyIframeLikeForRoughOptions(element, isExporting, embedsValidationStatus) ==
  IF /\ isIframeLikeElement(element)
     /\ (isExporting
           \/ (isEmbeddableElement(element)
                 /\ ~IsValidated(embedsValidationStatus, element)))
     /\ isTransparent(element.backgroundColor)
     /\ isTransparent(element.strokeColor)
  THEN [element EXCEPT !.roughness = 0,
                       !.backgroundColor = "#d3d3d3",
                       !.fillStyle = "solid"]
  ELSE IF isIframeElement(element)
  THEN [element EXCEPT
          !.strokeColor = IF isTransparent(element.strokeColor)
                          THEN "#000000" ELSE element.strokeColor,
          !.backgroundColor = IF isTransparent(element.backgroundColor)
                              THEN "#f4f4f6" ELSE element.backgroundColor]
  ELSE element

\* corner radius for a reference size: a quarter of it
getCornerRadius(x, element) == IF element.roundness THEN x \div 4 ELSE 0

\* the check with the bound itself excluded
PointsWithinLimit_Strict(points) ==
  \A i \in 1..Len(points) :
    Abs(points[i][1]) < ElbowLimit /\ Abs(points[i][2]) < ElbowLimit

\* the extreme-position check on the points of an elbow arrow
PointsWithinLimit(points) ==
  \A i \in 1..Len(points) :
    Abs(points[i][1]) <= ElbowLimit /\ Abs(points[i][2]) <= ElbowLimit

\* the rounded rectangle path, coordinates in halves
RoundedRectPath(w, h, r) ==
  << PathCmd("M", 2 * r, 0, 0, 0),
     PathCmd("L", 2 * (w - r), 0, 0, 0),
     PathCmd("Q", 2 * w, 2 * r, 2 * w, 0),
     PathCmd("L", 2 * w, 2 * (h - r), 0, 0),
     PathCmd("Q", 2 * (w - r), 2 * h, 2 * w, 2 * h),
     PathCmd("L", 2 * r, 2 * h, 0, 0),
     PathCmd("Q", 0, 2 * (h - r), 0, 2 * h),
     PathCmd("L", 0, 2 * r, 0, 0),
     PathCmd("Q", 2 * r, 0, 0, 0) >>

Shape(kind, ds) == [kind |-> kind, ds |-> ds]

NullShape == Shape("null", <<>>)
ThrownShape == Shape("throw", <<>>)

\* the points the line is built from: a single origin point when there are none
LinePoints(element) ==
  IF Len(element.points) # 0 THEN element.points ELSE << <<0, 0>> >>

\* the body primitive of a line or arrow, as a list of one (or none)
LineBody(element, options) ==
  LET points == LinePoints(element)
  IN  IF isElbowArrow(element)
      THEN IF ~PointsWithinLimit(points)
           THEN <<>>
           ELSE << Drawable("path", BodyGeom, <<>>,
                            generateElbowArrowShape(points, 16),
                            generateRoughOptions(element, TRUE)) >>
      ELSE IF ~element.roundness
      THEN IF options.fill # "undefined"
           THEN << Drawable("polygon", BodyGeom, points, <<>>, options) >>
           ELSE << Drawable("linearPath", BodyGeom, points, <<>>, options) >>
      ELSE << Drawable("curve", BodyGeom, points, <<>>, options) >>

\* startArrowhead = null and endArrowhead = "arrow" when the field is missing
StartArrowheadOf(element) ==
  IF element.startArrowhead = "undefined" THEN "null"
  ELSE element.startArrowhead

EndArrowheadOf(element) ==
  IF element.endArrowhead = "undefined" THEN "arrow"
  ELSE element.endArrowhead

\* the arrowhead at one end, or nothing when the end has none; `shape` is the
\* list built so far and `options` the options object as it is by then
ArrowheadAt(element, shape, position, arrowhead, options, canvasBackgroundColor) ==
  IF arrowhead # "null"
  THEN getArrowheadShapes(element, shape, position, arrowhead, options,
                          canvasBackgroundColor)
  ELSE [shapes |-> <<>>, options |-> options]

\* the end arrowhead appended to the list, drawn with the options the start
\* step left behind
WithEndArrowhead(element, withStart, optionsAfterStart, canvasBackgroundColor) ==
  withStart \o
    ArrowheadAt(element, withStart, "end", EndArrowheadOf(element),
                optionsAfterStart, canvasBackgroundColor).shapes

WithStartArrowhead(element, body, atStart, canvasBackgroundColor) ==
  WithEndArrowhead(element, body \o atStart.shapes, atStart.options,
                   canvasBackgroundColor)

\* the arrowhead step of an arrow: start first, then end, on one options object
ArrowShapes(element, body, options, canvasBackgroundColor) ==
  WithStartArrowhead(element, body,
    ArrowheadAt(element, body, "start", StartArrowheadOf(element), options,
                canvasBackgroundColor),
    canvasBackgroundColor)

\* a line or arrow from its options object
LinearShape(element, options, canvasBackgroundColor) ==
  IF element.type = "arrow"
  THEN Shape("list",
         ArrowShapes(element, LineBody(element, options), options,
                     canvasBackgroundColor))
  ELSE Shape("list", LineBody(element, options))

\* the four corners of a diamond (top, right, bottom, left), in halves
getDiamondPoints(element) ==
  << <<element.width, 0>>, <<2 * element.width, element.height>>,
     <<element.width, 2 * element.height>>, <<0, element.height>> >>

\* the rounded diamond path from its corners p and the two radii; each C
\* command has both control points on the corner, held as the one control
\* point of the command
DiamondPath(p, verticalRadius, horizontalRadius) ==
  << PathCmd("M", p[1][1] + verticalRadius, p[1][2] + horizontalRadius,
             0, 0),
     PathCmd("L", p[2][1] - verticalRadius, p[2][2] - horizontalRadius,
             0, 0),
     PathCmd("C", p[2][1] - verticalRadius, p[2][2] + horizontalRadius,
             p[2][1], p[2][2]),
     PathCmd("L", p[3][1] + verticalRadius, p[3][2] - horizontalRadius,
             0, 0),
     PathCmd("C", p[3][1] - verticalRadius, p[3][2] - horizontalRadius,
             p[3][1], p[3][2]),
     PathCmd("L", p[4][1] + verticalRadius, p[4][2] + horizontalRadius,
             0, 0),
     PathCmd("C", p[4][1] + verticalRadius, p[4][2] - horizontalRadius,
             p[4][1], p[4][2]),
     PathCmd("L", p[1][1] - verticalRadius, p[1][2] + horizontalRadius,
             0, 0),
     PathCmd("C", p[1][1] + verticalRadius, p[1][2] + horizontalRadius,
             p[1][1], p[1][2]) >>

RoundedDiamondPath(element) ==
  DiamondPath(getDiamondPoints(element),
    getCornerRadius(Abs(element.width - 0), element),
    getCornerRadius(Abs(element.height - 0), element))

\* rectangle, iframe, embeddable; `modified` is what the option builder gets
RectangleShape(element, modified) ==
  IF element.roundness
  THEN Shape("single",
         << Drawable("path", BodyGeom, <<>>,
              RoundedRectPath(element.width, element.height,
                getCornerRadius(Min(element.width, element.height),
                                element)),
              generateRoughOptions(modified, TRUE)) >>)
  ELSE Shape("single",
         << Drawable("rectangle", BodyGeom,
              << <<0, 0>>, <<element.width, element.height>> >>, <<>>,
              generateRoughOptions(modified, FALSE)) >>)

\* image elements dispatched with the rectangles
ElementShapeOf_ImageAsRectangle(element, renderConfig) ==
  IF element.type \in {"rectangle", "iframe", "embeddable", "image"}
  THEN RectangleShape(element,
         modifyIframeLikeForRoughOptions(element, renderConfig.isExporting,
           renderConfig.embedsValidationStatus))
  ELSE NullShape

----------------------------------------------------------------------------
(* Floating point.  The 3D box projector computes in binary floating      *)
(* point, and its results depend on the rounding of every operation.  A   *)
(* number is held as an integer count of the smallest step 2^-FracBits,   *)
(* and every result is rounded to MantissaBits significant bits, ties to  *)
(* even, as the machine rounds to 53.  A magnitude below 2^MantissaBits   *)
(* steps is held exactly, as below the smallest normal number.            *)

RECURSIVE Pow2(_)
Pow2(n) == IF n = 0 THEN 1 ELSE 2 * Pow2(n - 1)

\* the number 1
One == Pow2(FracBits)

\* the spacing of the representable numbers at magnitude n
RECURSIVE UlpFrom(_, _)
UlpFrom(n, q) == IF n < q * Pow2(MantissaBits) THEN q ELSE UlpFrom(n, 2 * q)

Ulp(n) == UlpFrom(Abs(n), 1)

\* num/den >= 0 rounded to the spacing q, given its multiple of q just below
RoundUp(base, num, den, q) ==
  IF \/ 2 * (num - base * den) > q * den
     \/ (2 * (num - base * den) = q * den /\ (base \div q) % 2 = 1)
  THEN base + q ELSE base

RoundAt(num, den, q) == RoundUp((num \div (den * q)) * q, num, den, q)

\* the representable number nearest to num/den (den > 0), ties to even
RoundRat(num, den) ==
  IF num < 0 THEN -RoundAt(-num, den, Ulp((-num) \div den))
  ELSE RoundAt(num, den, Ulp(num \div den))

IsRepresentable(n) == RoundRat(n, 1) = n

FAdd(a, b) == RoundRat(a + b, 1)
FSub(a, b) == RoundRat(a - b, 1)
FMul(a, b) == RoundRat(a * b, One)
\* b # 0
FDiv(a, b) == IF b < 0 THEN RoundRat(-(a * One), -b) ELSE RoundRat(a * One, b)

\* the integer square root
RECURSIVE SqrtFrom(_, _)
SqrtFrom(n, r) == IF (r + 1) * (r + 1) > n THEN r ELSE SqrtFrom(n, r + 1)

\* the square root of n2 >= 0 squared steps, given its floor r and spacing q
SqrtUp(base, n2, q) ==
  IF \/ 4 * n2 > (2 * base + q) * (2 * base + q)
     \/ (4 * n2 = (2 * base + q) * (2 * base + q) /\ (base \div q) % 2 = 1)
  THEN base + q ELSE base

SqrtAt(r, n2) == SqrtUp((r \div Ulp(r)) * Ulp(r), n2, Ulp(r))

FSqrtOfSquares(n2) == SqrtAt(SqrtFrom(n2, 0), n2)

\* Math.sqrt and Math.hypot
FSqrt(a) == FSqrtOfSquares(a * One)
FHypot(a, b) == FSqrtOfSquares(a * a + b * b)

\* the literals 0.5, 0.6 and 0.8 as the machine holds them
Half == RoundRat(One, 2)
SixTenths == RoundRat(6 * One, 10)
EightTenths == RoundRat(8 * One, 10)

----------------------------------------------------------------------------
(* 3D box projector.  The width and height of a cube or rectangularPrism, *)
(* its depth and its roundness value are floating point numbers.          *)

\* Math.sqrt(3) / 2 and 0.5
cos30 == FDiv(FSqrt(3 * One), 2 * One)
sin30 == Half

xScale == cos30
yScale == sin30

\* customData.shape3d.depth, and roundness.value: absent, or a number
Absent == [present |-> FALSE, value |-> 0]
Present(value) == [present |-> TRUE, value |-> value]

\* element.customData?.shape3d || {}, then .depth: an element that carries
\* no shape3d has no depth
shape3dDepth(element) ==
  IF "shape3d" \in DOMAIN element THEN element.shape3d ELSE Absent

\* shape3d.depth || (isCube ? element.width : element.width * 0.6)
depth(element, isCube) ==
  IF shape3dDepth(element).present /\ shape3dDepth(element).value # 0
  THEN shape3dDepth(element).value
  ELSE IF isCube THEN element.width ELSE FMul(element.width, SixTenths)

maxPossibleDepth(w, h) == Min(FDiv(w, xScale), FDiv(h, yScale))

maxAllowedDepth(w, h) == FMul(maxPossibleDepth(w, h), EightTenths)

\* the depth taken as asked for
effectiveDepth_Unclamped(w, h, d) == d

effectiveDepth(w, h, d) ==
  Max(-maxAllowedDepth(w, h), Min(maxAllowedDepth(w, h), d))

depthOffsetX(e) == FMul(Abs(e), xScale)
depthOffsetY(e) == FMul(Abs(e), yScale)

faceWidth(w, e) == FSub(w, depthOffsetX(e))
faceHeight(h, e) == FSub(h, depthOffsetY(e))

totalWidth(w, e) == FAdd(faceWidth(w, e), depthOffsetX(e))
totalHeight(h, e) == FAdd(faceHeight(h, e), depthOffsetY(e))

offsetX(w, e) == FDiv(FSub(w, totalWidth(w, e)), 2 * One)
offsetY(h, e) == FDiv(FSub(h, totalHeight(h, e)), 2 * One)

Vertex(x, y) == [x |-> x, y |-> y]

\* v0..v7 when effectiveDepth >= 0: front face bottom-left, back top-right
VerticesForward(ox, oy, fw, fh, dx, dy) ==
  << Vertex(ox, FAdd(FAdd(oy, fh), dy)),
     Vertex(FAdd(ox, fw), FAdd(FAdd(oy, fh), dy)),
     Vertex(FAdd(FAdd(ox, fw), dx), FAdd(oy, fh)),
     Vertex(FAdd(ox, dx), FAdd(oy, fh)),
     Vertex(ox, FAdd(oy, dy)),
     Vertex(FAdd(ox, fw), FAdd(oy, dy)),
     Vertex(FAdd(FAdd(ox, fw), dx), oy),
     Vertex(FAdd(ox, dx), oy) >>

\* a negative depth placed as a positive one
VerticesBackward_AsForward(ox, oy, fw, fh, dx, dy) ==
  VerticesForward(ox, oy, fw, fh, dx, dy)

\* v0..v7 when effectiveDepth < 0: back face bottom-left, front top-right
VerticesBackward(ox, oy, fw, fh, dx, dy) ==
  << Vertex(FAdd(ox, dx), FAdd(oy, fh)),
     Vertex(FAdd(FAdd(ox, fw), dx), FAdd(oy, fh)),
     Vertex(FAdd(ox, fw), FAdd(FAdd(oy, fh), dy)),
     Vertex(ox, FAdd(FAdd(oy, fh), dy)),
     Vertex(FAdd(ox, dx), oy),
     Vertex(FAdd(FAdd(ox, fw), dx), oy),
     Vertex(FAdd(ox, fw), FAdd(oy, dy)),
     Vertex(ox, FAdd(oy, dy)) >>

\* the vertices v0..v7 of the box, v[i + 1] holding vertex i
centeredVertices(w, h, e) ==
  IF e >= 0
  THEN VerticesForward(offsetX(w, e), offsetY(h, e), faceWidth(w, e),
                       faceHeight(h, e), depthOffsetX(e), depthOffsetY(e))
  ELSE VerticesBackward(offsetX(w, e), offsetY(h, e), faceWidth(w, e),
                        faceHeight(h, e), depthOffsetX(e), depthOffsetY(e))

\* the 12 edges by vertex index: bottom face, top face, vertical edges
edges ==
  << <<0, 1>>, <<1, 2>>, <<2, 3>>, <<3, 0>>,
     <<4, 5>>, <<5, 6>>, <<6, 7>>, <<7, 4>>,
     <<0, 4>>, <<1, 5>>, <<2, 6>>, <<3, 7>> >>

\* el.strokeWidth || 2, in sixths
BoxStrokeWidth(el) == IF el.strokeWidth = 0 THEN 12 ELSE el.strokeWidth

\* adjustRoughness on the box: the thresholds are whole numbers, so the
\* sizes compare as their whole parts do
BoxRoughness(el) ==
  AdjustedRoughness(el, el.roughness, Max(el.width, el.height) \div One,
                    Min(el.width, el.height) \div One)

\* the options of the edges and of the rounded outlines
BoxOptions(el) ==
  [seed |-> el.seed,
   strokeWidth |-> IF el.strokeStyle # "solid"
                   THEN BoxStrokeWidth(el) + 3 ELSE BoxStrokeWidth(el),
   stroke |-> IF el.strokeColor = "" THEN "#000000" ELSE el.strokeColor,
   roughness |-> BoxRoughness(el),
   strokeLineDash |->
     IF el.strokeStyle = "dashed" THEN getDashArrayDashed(BoxStrokeWidth(el))
     ELSE IF el.strokeStyle = "dotted"
          THEN getDashArrayDotted(BoxStrokeWidth(el))
          ELSE <<>>,
   disableMultiStroke |-> el.strokeStyle # "solid",
   threw |-> FALSE]

maxPossibleRadius(fw, fh, e) ==
  FDiv(Min(fw, Min(fh, FMul(Abs(e), Half))), 2 * One)

\* el.roundness.value, undefined when the descriptor carries none
roundnessValue(el) ==
  IF "roundnessValue" \in DOMAIN el THEN el.roundnessValue ELSE Absent

cornerRadius(el, e) ==
  IF ~el.roundness THEN 0
  ELSE IF roundnessValue(el).present
       THEN Min(roundnessValue(el).value,
                maxPossibleRadius(faceWidth(el.width, e),
                                  faceHeight(el.height, e), e))
       ELSE getCornerRadius(Min(faceWidth(el.width, e),
                                Min(faceHeight(el.height, e),
                                    FMul(Abs(e), Half))), el)

\* a number of a path description that may be NaN
Num(v) == [nan |-> FALSE, v |-> v]
NaN == [nan |-> TRUE, v |-> 0]

\* a / len for a length len >= |a|: 0 / 0 is NaN
DivByLength(a, len) == IF len = 0 THEN NaN ELSE Num(FDiv(a, len))

\* v + dir * r
Along(v, dir, r) == IF dir.nan THEN NaN ELSE Num(FAdd(v, FMul(dir.v, r)))
\* v - dir * r
Against(v, dir, r) == IF dir.nan THEN NaN ELSE Num(FSub(v, FMul(dir.v, r)))

\* Math.hypot(b.x - a.x, b.y - a.y)
EdgeLength(a, b) == FHypot(FSub(b.x, a.x), FSub(b.y, a.y))

\* the direction vector of the edge from a to b
EdgeDirection(a, b) ==
  [x |-> DivByLength(FSub(b.x, a.x), EdgeLength(a, b)),
   y |-> DivByLength(FSub(b.y, a.y), EdgeLength(a, b))]

\* the radius of one face: r of createRoundedFacePath
FaceRadius(v0, v1, v2, v3, radius) ==
  Min(radius,
      Min(FDiv(EdgeLength(v0, v1), 3 * One),
          Min(FDiv(EdgeLength(v1, v2), 3 * One),
              Min(FDiv(EdgeLength(v2, v3), 3 * One),
                  FDiv(EdgeLength(v3, v0), 3 * One)))))

\* "M" or "L" to the point at r from v along or against dir
FaceMove(cmd, v, dir, r, along) ==
  IF along THEN PathCmd(cmd, Along(v.x, dir.x, r), Along(v.y, dir.y, r),
                        Num(0), Num(0))
  ELSE PathCmd(cmd, Against(v.x, dir.x, r), Against(v.y, dir.y, r),
               Num(0), Num(0))

\* "Q" with control point v to the point at r from v along dir
FaceCurve(v, dir, r) ==
  PathCmd("Q", Along(v.x, dir.x, r), Along(v.y, dir.y, r), Num(v.x), Num(v.y))

FacePath(v0, v1, v2, v3, dir01, dir12, dir23, dir30, r) ==
  << FaceMove("M", v0, dir01, r, TRUE),
     FaceMove("L", v1, dir01, r, FALSE),
     FaceCurve(v1, dir12, r),
     FaceMove("L", v2, dir12, r, FALSE),
     FaceCurve(v2, dir23, r),
     FaceMove("L", v3, dir23, r, FALSE),
     FaceCurve(v3, dir30, r),
     FaceMove("L", v0, dir30, r, FALSE),
     FaceCurve(v0, dir01, r),
     PathCmd("Z", Num(0), Num(0), Num(0), Num(0)) >>

createRoundedFacePath(v0, v1, v2, v3, radius) ==
  FacePath(v0, v1, v2, v3, EdgeDirection(v0, v1), EdgeDirection(v1, v2),
           EdgeDirection(v2, v3), EdgeDirection(v3, v0),
           FaceRadius(v0, v1, v2, v3, radius))

\* the rounded outline of the face with the given four vertex indices
RoundedFace(v, face, radius, options) ==
  Drawable("path", BodyGeom, <<>>,
           createRoundedFacePath(v[face[1] + 1], v[face[2] + 1],
                                 v[face[3] + 1], v[face[4] + 1], radius),
           options)

\* the visible faces, drawn rounded: front, top, right
RoundedFaces == << <<0, 1, 5, 4>>, <<4, 5, 6, 7>>, <<1, 2, 6, 5>> >>

\* the straight edge from vertex edge[1] to vertex edge[2]
EdgeLine(v, edge, options) ==
  Drawable("line", BodyGeom,
           << <<v[edge[1] + 1].x, v[edge[1] + 1].y>>,
              <<v[edge[2] + 1].x, v[edge[2] + 1].y>> >>,
           <<>>, options)

\* the strokes: three rounded outlines, or the 12 straight edges
BoxStrokes(v, radius, options) ==
  IF radius > 0
  THEN [i \in 1..Len(RoundedFaces) |->
          RoundedFace(v, RoundedFaces[i], radius, options)]
  ELSE [i \in 1..Len(edges) |-> EdgeLine(v, edges[i], options)]

faceFillOptions(el) ==
  [seed |-> el.seed,
   roughness |-> BoxRoughness(el),
   fill |-> el.backgroundColor,
   fillStyle |-> IF el.fillStyle = "" THEN "solid" ELSE el.fillStyle,
   fillWeight |-> BoxStrokeWidth(el) \div 2,
   hachureGap |-> BoxStrokeWidth(el) * 4,
   stroke |-> "none",
   strokeWidth |-> 0,
   threw |-> FALSE]

\* the filled polygon of the face with the given four vertex indices
FacePolygon(v, face, options) ==
  Drawable("polygon", BodyGeom,
           [k \in 1..4 |-> <<v[face[k] + 1].x, v[face[k] + 1].y>>],
           <<>>, options)

frontFacePoints == <<0, 1, 5, 4>>
backFacePoints == <<3, 7, 6, 2>>
leftFacePoints == <<0, 4, 7, 3>>
rightFacePoints == <<1, 2, 6, 5>>
topFacePoints == <<4, 5, 6, 7>>
bottomFacePoints == <<0, 3, 2, 1>>

\* Array.unshift: the item becomes the first of the list
Unshift(shapes, item) == <<item>> \o shapes

\* the six unshift calls, in the order the code makes them
WithFaces(shapes, v, options) ==
  Unshift(Unshift(Unshift(Unshift(Unshift(Unshift(shapes,
    FacePolygon(v, backFacePoints, options)),
    FacePolygon(v, bottomFacePoints, options)),
    FacePolygon(v, leftFacePoints, options)),
    FacePolygon(v, rightFacePoints, options)),
    FacePolygon(v, frontFacePoints, options)),
    FacePolygon(v, topFacePoints, options))

\* el.backgroundColor && !isTransparent(el.backgroundColor)
HasFaceFill(el) == el.backgroundColor # "" /\ ~isTransparent(el.backgroundColor)

\* the faces put after the strokes
BoxShapes_FacesLast(el, v, radius) ==
  IF HasFaceFill(el)
  THEN BoxStrokes(v, radius, BoxOptions(el))
         \o WithFaces(<<>>, v, faceFillOptions(el))
  ELSE BoxStrokes(v, radius, BoxOptions(el))

BoxShapes(el, v, radius) ==
  IF HasFaceFill(el)
  THEN WithFaces(BoxStrokes(v, radius, BoxOptions(el)), v, faceFillOptions(el))
  ELSE BoxStrokes(v, radius, BoxOptions(el))

\* the depth the projector works with
BoxDepth(element, isCube) ==
  effectiveDepth(element.width, element.height, depth(element, isCube))

BoxVertices(element, isCube) ==
  centeredVertices(element.width, element.height, BoxDepth(element, isCube))

generate3DRectangularShapes(element, isCube) ==
  BoxShapes(element, BoxVertices(element, isCube),
            cornerRadius(element, BoxDepth(element, isCube)))

----------------------------------------------------------------------------
(* Shape generator: the dispatch *)

\* the dispatch on the element type
ElementShapeOf(element, renderConfig) ==
  CASE element.type \in {"rectangle", "iframe", "embeddable"} ->
         RectangleShape(element,
           modifyIframeLikeForRoughOptions(element,
             renderConfig.isExporting,
             renderConfig.embedsValidationStatus))
    [] element.type = "diamond" ->
         IF element.roundness
         THEN Shape("single",
                << Drawable("path", BodyGeom, <<>>,
                     RoundedDiamondPath(element),
                     generateRoughOptions(element, TRUE)) >>)
         ELSE Shape("single",
                << Drawable("polygon", BodyGeom, getDiamondPoints(element),
                     <<>>, generateRoughOptions(element, FALSE)) >>)
    [] element.type = "ellipse" ->
         Shape("single",
           << Drawable("ellipse", BodyGeom,
                << <<element.width, element.height>>,
                   <<2 * element.width, 2 * element.height>> >>, <<>>,
                generateRoughOptions(element, FALSE)) >>)
    [] element.type \in {"line", "arrow"} ->
         LinearShape(element, generateRoughOptions(element, FALSE),
                     renderConfig.canvasBackgroundColor)
    [] element.type = "freedraw" ->
         IF isPathALoop(element.points)
         THEN Shape("single",
                << Drawable("curve", BodyGeom, element.points, <<>>,
                     [generateRoughOptions(element, FALSE)
                        EXCEPT !.stroke = "none"]) >>)
         ELSE NullShape
    [] element.type \in {"frame", "magicframe", "text", "image"} ->
         NullShape
    [] element.type = "cube" ->
         Shape("list", generate3DRectangularShapes(element, TRUE))
    [] element.type = "rectangularPrism" ->
         Shape("list", generate3DRectangularShapes(element, FALSE))
    [] OTHER -> ThrownShape

\* an error raised while building options ends the generation
Threw(shape) ==
  shape.kind = "throw"
    \/ \E i \in 1..Len(shape.ds) : shape.ds[i].options.threw

Propagate(shape) == IF Threw(shape) THEN ThrownShape ELSE shape

generateElementShape(element, renderConfig) ==
  Propagate(ElementShapeOf(element, renderConfig))

----------------------------------------------------------------------------
(* ShapeCache.  The WeakMap is a function from element identity to its    *)
(* entry, "undefined" where the map holds none.                           *)

Undefined == Shape("undefined", <<>>)

ShapeCache_get(c, e) == c[e]

ShapeCache_set(c, e, shape) == [c EXCEPT ![e] = shape]

\* a delete that wipes the map
ShapeCache_delete_All(c, e) == [i \in DOMAIN c |-> Undefined]

\* a delete that removes nothing
ShapeCache_delete_Noop(c, e) == c

ShapeCache_delete(c, e) == [c EXCEPT ![e] = Undefined]

ShapeCache_destroy(c) == [i \in DOMAIN c |-> Undefined]

\* the result of the call: what is returned, both caches as the call leaves
\* them, how often the generator ran, with which configuration, and the
\* steps in their order
CacheHit(c, cc, cachedShape) ==
  [ret |-> cachedShape, cache |-> c, canvasCache |-> cc, generated |-> 0,
   used |-> DefaultRenderConfig, trace |-> <<"return">>]

\* a miss that leaves the bitmap entry in place
CacheMiss_KeepsCanvas(c, cc, element, used, shape) ==
  [ret |-> shape, cache |-> ShapeCache_set(c, element.id, shape),
   canvasCache |-> cc, generated |-> 1, used |-> used,
   trace |-> <<"generate", "store", "return">>]

CacheMiss(c, cc, element, used, shape) ==
  IF shape = ThrownShape
  THEN [ret |-> ThrownShape, cache |-> c, canvasCache |-> cc \ {element.id},
        generated |-> 1, used |-> used,
        trace |-> <<"canvasDelete", "generate", "throw">>]
  ELSE [ret |-> shape, cache |-> ShapeCache_set(c, element.id, shape),
        canvasCache |-> cc \ {element.id},
        generated |-> 1, used |-> used,
        trace |-> <<"canvasDelete", "generate", "store", "return">>]

\* renderConfig || the default configuration
ConfigOrDefault(renderConfig) ==
  IF renderConfig.isNull THEN DefaultRenderConfig ELSE renderConfig.config

\* the no-geometry marker taken for a missing entry
CachedShapeFor_NullIsMiss(c, element, renderConfig) ==
  IF (~renderConfig.isNull /\ renderConfig.config.isExporting)
       \/ ShapeCache_get(c, element.id) = NullShape
  THEN Undefined
  ELSE ShapeCache_get(c, element.id)

\* the entry served to an exporting call too
CachedShapeFor_IgnoresExport(c, element, renderConfig) ==
  ShapeCache_get(c, element.id)

\* renderConfig?.isExporting ? undefined : ShapeCache.get(element)
CachedShapeFor(c, element, renderConfig) ==
  IF ~renderConfig.isNull /\ renderConfig.config.isExporting
  THEN Undefined
  ELSE ShapeCache_get(c, element.id)

\* renderConfig: [isNull, config]
ShapeCache_generateElementShape(c, cc, element, renderConfig) ==
  IF CachedShapeFor(c, element, renderConfig) # Undefined
  THEN CacheHit(c, cc, CachedShapeFor(c, element, renderConfig))
  ELSE CacheMiss(c, cc, element, ConfigOrDefault(renderConfig),
         generateElementShape(element, ConfigOrDefault(renderConfig)))

----------------------------------------------------------------------------
(* The scene and the inputs of the cache operations *)

\* an element of the given type, with the fields every element has
BaseElement(id, type) ==
  [id |-> id, type |-> type, width |-> 40, height |-> 40,
   strokeStyle |-> "solid", strokeWidth |-> 6, roughness |-> 6,
   roundness |-> FALSE,
   strokeColor |-> IF type \in {"iframe", "embeddable"}
                   THEN "transparent" ELSE "#1e1e1e",
   backgroundColor |-> "transparent", fillStyle |-> "solid",
   seed |-> 1,
   points |-> IF type \in {"arrow", "line"}
              THEN << <<0, 0>>, <<40, 40>> >> ELSE <<>>,
   elbowed |-> FALSE,
   startArrowhead |-> "null",
   endArrowhead |-> IF type = "arrow" THEN "triangle_outline" ELSE "null"]

\* the element types of the scenes, in the order scenes take them
SceneTypes ==
  << "text", "embeddable", "image", "rectangle", "arrow", "frame",
     "iframe", "magicframe" >>

\* the scenes tile the list of types: scene k holds the next NumElements
\* types, one per identity
SceneElement(k, id) ==
  BaseElement(id,
    SceneTypes[((NumElements * (k - 1) + id - 1) % Len(SceneTypes)) + 1])

Scenes == 1..((Len(SceneTypes) + NumElements - 1) \div NumElements)

\* the values an edit gives to the geometry-affecting fields
EditWidths == {40, 80}

EditedElement(element, width) ==
  [element EXCEPT
     !.width = width,
     !.points = IF Len(element.points) = 0 THEN <<>>
                ELSE << <<0, 0>>, <<width, 40>> >>]

ValidationStatuses ==
  {NullValidationStatus, [isNull |-> FALSE, validated |-> Ids]}

\* the render configurations callers pass: the default one and those that
\* differ from it in one field
RenderConfigs ==
  {rc \in [isExporting : BOOLEAN,
           canvasBackgroundColor : {White, "#000000"},
           embedsValidationStatus : ValidationStatuses] :
     Cardinality({f \in {"isExporting", "canvasBackgroundColor",
                         "embedsValidationStatus"} :
                    rc[f] # DefaultRenderConfig[f]}) <= 1}

\* what a caller may hand to generateElementShape: null or a configuration
NullArg == [isNull |-> TRUE, config |-> DefaultRenderConfig]

RenderConfigArgs ==
  {NullArg}
    \cup {[isNull |-> FALSE, config |-> rc] : rc \in RenderConfigs}

\* geometry a caller may hand to set for an element: the no-geometry marker
\* or geometry of the element's type, built from any values of its fields
SuppliableShapes(element) ==
  {NullShape} \cup
    {generateElementShape(EditedElement(element, w), DefaultRenderConfig) :
       w \in EditWidths}

----------------------------------------------------------------------------
(* The cache as a state machine *)

\* the record of an operation other than generateElementShape
Last(op, id, ret) ==
  [op |-> op, id |-> id, isNull |-> TRUE, isExporting |-> FALSE,
   ret |-> ret, generated |-> 0, usedDefault |-> FALSE, trace |-> <<>>]

\* the record of an operation that returns nothing and is not looked at again
NoResult(op) == Last(op, 1, Undefined)

\* the record of a generateElementShape call with argument arg and result r
LastGenerate(id, arg, r) ==
  [op |-> "getOrGenerate", id |-> id, isNull |-> arg.isNull,
   isExporting |-> ~arg.isNull /\ arg.config.isExporting,
   ret |-> r.ret, generated |-> r.generated,
   usedDefault |-> r.generated > 0 /\ r.used = DefaultRenderConfig,
   trace |-> r.trace]

\* no pure generator is being called
NoCall == [pc |-> "none"]

\* the application state before any presentation: the fields the
\* presentation actions read or write
DefaultAppState ==
  [presentationMode |-> FALSE, presentationFrameIndex |-> 0,
   presentationFrameIds |-> <<>>, viewModeEnabled |-> FALSE,
   zenModeEnabled |-> FALSE, toast |-> "null", openSidebar |-> "null",
   openDialog |-> "null", openMenu |-> "null"]

NoArrowIn ==
  [element |-> BaseElement(1, "arrow"), canvasBackgroundColor |-> White]

NoArrowOut ==
  [pc |-> "off", shape |-> Undefined, position |-> "none",
   before |-> BaseRoughOptions(BaseElement(1, "arrow"), FALSE),
   step |-> [shapes |-> <<>>,
             options |-> BaseRoughOptions(BaseElement(1, "arrow"), FALSE)]]

Init ==
  /\ \E k \in Scenes :
       elements = [id \in Ids |-> SceneElement(k, id)]
  /\ cache = [id \in Ids |-> Undefined]
  /\ canvasCache = {}
  /\ last = Last("init", 1, Undefined)
  /\ origin = [id \in Ids |-> "none"]
  /\ stored = [id \in Ids |-> Undefined]
  /\ arrowIn = NoArrowIn
  /\ arrowOut = NoArrowOut
  /\ callIn = NoCall
  /\ callOut = NoCall
  /\ appState = DefaultAppState

\* ShapeCache.get
Get(e) ==
  /\ last' = Last("get", e, ShapeCache_get(cache, e))
  /\ UNCHANGED <<elements, cache, canvasCache, origin, stored, arrowIn,
                 arrowOut, callIn, callOut,
                 appState>>

\* ShapeCache.set
Set(e, shape) ==
  /\ cache' = ShapeCache_set(cache, e, shape)
  /\ origin' = [origin EXCEPT ![e] = "set"]
  /\ stored' = [stored EXCEPT ![e] = shape]
  /\ last' = NoResult("set")
  /\ UNCHANGED <<elements, canvasCache, arrowIn, arrowOut, callIn, callOut,
                 appState>>

\* ShapeCache.delete
Delete(e) ==
  /\ cache' = ShapeCache_delete(cache, e)
  /\ origin' = [origin EXCEPT ![e] = "none"]
  /\ stored' = [stored EXCEPT ![e] = Undefined]
  /\ last' = Last("delete", e, Undefined)
  /\ UNCHANGED <<elements, canvasCache, arrowIn, arrowOut, callIn, callOut,
                 appState>>

\* ShapeCache.destroy
Destroy ==
  /\ cache' = ShapeCache_destroy(cache)
  /\ origin' = [id \in Ids |-> "none"]
  /\ stored' = [id \in Ids |-> Undefined]
  /\ last' = NoResult("destroy")
  /\ UNCHANGED <<elements, canvasCache, arrowIn, arrowOut, callIn, callOut,
                 appState>>

\* ShapeCache.generateElementShape
GetOrGenerate(e, arg) ==
  \E r \in {ShapeCache_generateElementShape(cache, canvasCache, elements[e],
                                            arg)} :
    /\ cache' = r.cache
    /\ canvasCache' = r.canvasCache
    /\ origin' = IF r.generated > 0 /\ r.ret # ThrownShape
                 THEN [origin EXCEPT ![e] = "generated"]
                 ELSE origin
    /\ stored' = IF r.generated > 0 /\ r.ret # ThrownShape
                 THEN [stored EXCEPT ![e] = r.ret]
                 ELSE stored
    /\ last' = LastGenerate(e, arg, r)
    /\ UNCHANGED <<elements, arrowIn, arrowOut, callIn, callOut,
                 appState>>

\* an edit of the element's geometry-affecting fields: the entry is deleted
Edit(e, width) ==
  /\ elements[e].width # width
  /\ elements' = [elements EXCEPT ![e] = EditedElement(elements[e], width)]
  /\ cache' = ShapeCache_delete(cache, e)
  /\ origin' = [origin EXCEPT ![e] = "none"]
  /\ stored' = [stored EXCEPT ![e] = Undefined]
  /\ last' = NoResult("edit")
  /\ UNCHANGED <<canvasCache, arrowIn, arrowOut, callIn, callOut,
                 appState>>

\* the renderer paints the element to a bitmap and keeps it
CanvasCacheSet(e) ==
  /\ e \notin canvasCache
  /\ canvasCache' = canvasCache \cup {e}
  /\ last' = NoResult("canvasSet")
  /\ UNCHANGED <<elements, cache, origin, stored, arrowIn, arrowOut, callIn,
                 callOut,
                 appState>>

Next ==
  \/ \E e \in Ids : Get(e)
  \/ \E e \in Ids : \E shape \in SuppliableShapes(elements[e]) : Set(e, shape)
  \/ \E e \in Ids : Delete(e)
  \/ Destroy
  \/ \E e \in Ids : \E arg \in RenderConfigArgs : GetOrGenerate(e, arg)
  \/ \E e \in Ids : \E width \in EditWidths : Edit(e, width)
  \/ \E e \in Ids : CanvasCacheSet(e)

Spec == Init /\ [][Next]_vars

----------------------------------------------------------------------------
(* Arrow generation as a run of its own: an arrow is drawn from bounded   *)
(* sets of field values, then either the whole shape is generated or the  *)
(* arrowhead step is applied at one end with a fresh options object.      *)

Arrow(strokeStyle, roughness, width, points, elbowed, startArrowhead, endArrowhead) ==
  [BaseElement(1, "arrow") EXCEPT
     !.strokeStyle = strokeStyle, !.roughness = roughness,
     !.width = width, !.height = 0, !.points = points,
     !.elbowed = elbowed, !.startArrowhead = startArrowhead,
     !.endArrowhead = endArrowhead]

\* a straight line of n points, `width` long
StraightLine(n, width) == [i \in 1..n |-> <<(i - 1) * width, 0>>]

ArrowSizes == {8, 60}

StyledArrows ==
  {Arrow(strokeStyle, roughness, width, StraightLine(n, width), FALSE,
         startArrowhead, endArrowhead) :
     strokeStyle \in StrokeStyles, roughness \in Roughnesses,
     width \in ArrowSizes, n \in 0..MaxPoints,
     startArrowhead \in ArrowheadKinds \cup {"null"},
     endArrowhead \in ArrowheadKinds \cup {"null"}}

\* coordinates at and around the sanity bound
ElbowCoords ==
  {0} \cup {ElbowLimit + k : k \in 0..Overshoot}
      \cup {-(ElbowLimit + k) : k \in 0..Overshoot}

\* orthogonal routes of two and three points from the origin
ElbowRoutes ==
  {<< <<0, 0>>, <<x, 0>> >> : x \in ElbowCoords}
    \cup {<< <<0, 0>>, <<0, y>> >> : y \in ElbowCoords}
    \cup {<< <<0, 0>>, <<x, 0>>, <<x, y>> >> :
            x \in ElbowCoords, y \in ElbowCoords}

ElbowArrows ==
  {Arrow("solid", 6, 60, route, TRUE, startArrowhead, endArrowhead) :
     route \in ElbowRoutes, startArrowhead \in {"null", "arrow"},
     endArrowhead \in {"null", "arrow", "dot"}}

ArrowInputs ==
  [element : StyledArrows \cup ElbowArrows,
   canvasBackgroundColor : {White, "#000000"}]

ArrowRenderConfig(canvasBackgroundColor) ==
  [DefaultRenderConfig EXCEPT
     !.canvasBackgroundColor = canvasBackgroundColor]

ArrowheadOf(element, position) ==
  IF position = "start" THEN StartArrowheadOf(element)
  ELSE EndArrowheadOf(element)

InitArrow ==
  /\ elements = [id \in Ids |-> SceneElement(1, id)]
  /\ cache = [id \in Ids |-> Undefined]
  /\ canvasCache = {}
  /\ last = Last("init", 1, Undefined)
  /\ origin = [id \in Ids |-> "none"]
  /\ stored = [id \in Ids |-> Undefined]
  /\ arrowIn \in ArrowInputs
  /\ arrowOut = [NoArrowOut EXCEPT !.pc = "init"]
  /\ callIn = NoCall
  /\ callOut = NoCall
  /\ appState = DefaultAppState

\* generateElementShape on the arrow
GenerateArrow ==
  /\ arrowOut.pc = "init"
  /\ arrowOut' =
       [arrowOut EXCEPT
          !.pc = "generated",
          !.shape = generateElementShape(arrowIn.element,
                      ArrowRenderConfig(arrowIn.canvasBackgroundColor))]
  /\ UNCHANGED <<elements, cache, canvasCache, last, origin, stored,
                 arrowIn, callIn, callOut,
                 appState>>

\* getArrowheadShapes at one end, on the options object `before`
ArrowheadStepOn(position, before) ==
  arrowOut' =
    [arrowOut EXCEPT
       !.pc = "step", !.position = position, !.before = before,
       !.step = getArrowheadShapes(arrowIn.element,
                  LineBody(arrowIn.element, before), position,
                  ArrowheadOf(arrowIn.element, position), before,
                  arrowIn.canvasBackgroundColor)]

ArrowheadStep(position) ==
  /\ arrowOut.pc = "init"
  /\ ArrowheadOf(arrowIn.element, position) # "null"
  /\ ArrowheadStepOn(position, generateRoughOptions(arrowIn.element, FALSE))
  /\ UNCHANGED <<elements, cache, canvasCache, last, origin, stored,
                 arrowIn, callIn, callOut,
                 appState>>

NextArrow ==
  \/ GenerateArrow
  \/ \E position \in {"start", "end"} : ArrowheadStep(position)

SpecArrow == InitArrow /\ [][NextArrow]_vars

----------------------------------------------------------------------------
(* Single calls of the pure generators: the argument is drawn from a      *)
(* bounded set, then the generator is called on it once.  The cache and   *)
(* the arrow run take no part.                                            *)

\* the cache and the arrow run at rest
AtRest ==
  /\ appState = DefaultAppState
  /\ elements = [id \in Ids |-> SceneElement(1, id)]
  /\ cache = [id \in Ids |-> Undefined]
  /\ canvasCache = {}
  /\ last = Last("init", 1, Undefined)
  /\ origin = [id \in Ids |-> "none"]
  /\ stored = [id \in Ids |-> Undefined]
  /\ arrowIn = NoArrowIn
  /\ arrowOut = NoArrowOut

\* the widths and heights of the boxes: the numbers up to MaxSide that are
\* at most three steps or a multiple of five steps
BoxSides == {n \in 0..MaxSide : IsRepresentable(n) /\ (n <= 3 \/ n % 5 = 0)}

\* the magnitudes of the depths asked for: powers of two, and three steps
BoxDepthMagnitudes ==
  {3} \cup {Pow2(k) : k \in 0..(FracBits + MantissaBits + 2)}

\* customData.shape3d.depth: absent, zero, forward or backward
BoxDepths ==
  {Absent, Present(0)}
    \cup {Present(d) : d \in BoxDepthMagnitudes}
    \cup {Present(-d) : d \in BoxDepthMagnitudes}

\* the roundness descriptor: none, without a value, with the value 1
BoxRoundness == {<<FALSE, Absent>>, <<TRUE, Absent>>, <<TRUE, Present(One)>>}

BoxBackgrounds == {"transparent", "#ffc9c9"}

BoxElement(type, w, h, d, round, background) ==
  [BaseElement(1, type) EXCEPT
     !.width = w, !.height = h, !.roundness = round[1],
     !.backgroundColor = background]
    @@ [shape3d |-> d, roundnessValue |-> round[2]]

BoxElements ==
  {BoxElement(type, w, h, d, round, background) :
     type \in {"cube", "rectangularPrism"}, w \in BoxSides, h \in BoxSides,
     d \in BoxDepths, round \in BoxRoundness, background \in BoxBackgrounds}

InitBox ==
  /\ AtRest
  /\ callIn \in {[pc |-> "box", element |-> el] : el \in BoxElements}
  /\ callOut = NoCall

\* generateElementShape on the box; the vertices are those the projector
\* places before it draws
ProjectBox ==
  /\ callIn.pc = "box"
  /\ callOut.pc = "none"
  /\ callOut' =
       [pc |-> "projected",
        vertices |-> BoxVertices(callIn.element, callIn.element.type = "cube"),
        shape |-> generateElementShape(callIn.element, DefaultRenderConfig)]
  /\ UNCHANGED <<elements, cache, canvasCache, last, origin, stored,
                 arrowIn, arrowOut, callIn,
                 appState>>

NextBox == ProjectBox

SpecBox == InitBox /\ [][NextBox]_vars

\* the lengths of the segments of an orthogonal route: none, short, one
\* below twice the corner radius, and long
ElbowLengths == {0, 10, 31, 40}

\* the directions of a segment, as steps along x and y
ElbowDirections == {<<1, 0>>, <<-1, 0>>, <<0, 1>>, <<0, -1>>}

\* the route from the point `from` along the given segments
RECURSIVE RouteFrom(_, _)
RouteFrom(from, segments) ==
  IF Len(segments) = 0 THEN <<from>>
  ELSE <<from>>
         \o RouteFrom(<<from[1] + segments[1][1][1] * segments[1][2],
                        from[2] + segments[1][1][2] * segments[1][2]>>,
                      Tail(segments))

\* the orthogonal routes of ElbowSegments segments from the origin
OrthogonalRoutes ==
  {RouteFrom(<<0, 0>>, segments) :
     segments \in [1..ElbowSegments -> ElbowDirections \X ElbowLengths]}

\* the corner radius: 16 as the shape generator passes it, and a small one
ElbowRadii == {4, 16}

InitElbow ==
  /\ AtRest
  /\ callIn \in {[pc |-> "elbow", points |-> points, radius |-> radius] :
                   points \in OrthogonalRoutes, radius \in ElbowRadii}
  /\ callOut = NoCall

\* generateElbowArrowShape on the route
BuildElbow ==
  /\ callIn.pc = "elbow"
  /\ callOut.pc = "none"
  /\ callOut' = [pc |-> "built",
                 d |-> generateElbowArrowShape(callIn.points, callIn.radius)]
  /\ UNCHANGED <<elements, cache, canvasCache, last, origin, stored,
                 arrowIn, arrowOut, callIn,
                 appState>>

NextElbow == BuildElbow

SpecElbow == InitElbow /\ [][NextElbow]_vars

\* the element types the option builder is tried on: every type of element
OptionTypes ==
  {"rectangle", "iframe", "embeddable", "diamond", "ellipse", "cube",
   "rectangularPrism", "line", "freedraw", "arrow", "text", "image",
   "frame", "magicframe", "selection"}

\* widths and heights on both sides of the thresholds 10, 15, 20 and 50
OptionSizes == {5, 9, 10, 14, 15, 19, 20, 49, 50}

\* roughness in sixths: the three levels of the editor and larger ones
OptionRoughnesses == Roughnesses \cup {36, 48}

\* stroke widths in sixths: none, thin, bold, extra bold
OptionStrokeWidths == {0, 6, 12, 24}

\* each size and roughness with the default stroke, and each stroke with a
\* small and a large element
OptionElements ==
  {[BaseElement(1, type) EXCEPT
      !.width = w, !.height = h, !.roundness = round, !.roughness = r] :
     type \in OptionTypes, w \in OptionSizes, h \in OptionSizes,
     round \in BOOLEAN, r \in OptionRoughnesses}
  \cup
  {[BaseElement(1, type) EXCEPT
      !.width = w, !.strokeStyle = style, !.strokeWidth = sw,
      !.backgroundColor = background] :
     type \in OptionTypes, w \in {5, 50}, style \in StrokeStyles,
     sw \in OptionStrokeWidths, background \in BoxBackgrounds}

InitOptions ==
  /\ AtRest
  /\ callIn \in {[pc |-> "options", element |-> el, continuousPath |-> c] :
                   el \in OptionElements, c \in BOOLEAN}
  /\ callOut = NoCall

\* generateRoughOptions on the element; roughness is what its call of
\* adjustRoughness returned
BuildOptions ==
  /\ callIn.pc = "options"
  /\ callOut.pc = "none"
  /\ callOut' =
       [pc |-> "options",
        roughness |-> adjustRoughness(callIn.element),
        options |-> generateRoughOptions(callIn.element,
                                         callIn.continuousPath)]
  /\ UNCHANGED <<elements, cache, canvasCache, last, origin, stored,
                 arrowIn, arrowOut, callIn,
                 appState>>

NextOptions == BuildOptions

SpecOptions == InitOptions /\ [][NextOptions]_vars

----------------------------------------------------------------------------
(* The polygon toggle of a line *)

\* the distance under which the last point of a line is snapped onto the
\* first
LINE_POLYGON_POINT_MERGE_DISTANCE == 20

\* Math.hypot(first[0] - last[0], first[1] - last[1]) > merge distance, on
\* whole-number coordinates
FartherThanMergeDistance(firstPoint, lastPoint) ==
  (firstPoint[1] - lastPoint[1]) * (firstPoint[1] - lastPoint[1])
    + (firstPoint[2] - lastPoint[2]) * (firstPoint[2] - lastPoint[2])
  > LINE_POLYGON_POINT_MERGE_DISTANCE * LINE_POLYGON_POINT_MERGE_DISTANCE

\* every toggle to a polygon pushes a copy of the first point
ClosedPoints_AlwaysPushes(updatedPoints) ==
  Append(updatedPoints, updatedPoints[1])

\* the points of the polygon: a copy of the first point pushed, or the last
\* point overwritten with it
ClosedPoints(updatedPoints) ==
  IF \/ FartherThanMergeDistance(updatedPoints[1],
                                 updatedPoints[Len(updatedPoints)])
     \/ Len(updatedPoints) < 4
  THEN Append(updatedPoints, updatedPoints[1])
  ELSE [updatedPoints EXCEPT ![Len(updatedPoints)] = updatedPoints[1]]

\* the topology predicate of the caller's library, as it answered for the
\* points of this element
canBecomePolygon(element) == element.canBecomePolygon

NullResult == [null |-> TRUE]

\* the eligibility test made whatever the requested state is
toggleLinePolygonState_TestsAlways(element, nextPolygonState) ==
  IF ~canBecomePolygon(element)
  THEN [ret |-> NullResult, element |-> element]
  ELSE [ret |-> [null |-> FALSE, polygon |-> nextPolygonState,
                 points |-> IF nextPolygonState
                            THEN ClosedPoints(element.points)
                            ELSE element.points],
        element |-> element]

\* ret is what the function returns, element is the element after the
\* call: updatedPoints is a copy, so the pushes and writes leave it alone
toggleLinePolygonState(element, nextPolygonState) ==
  IF nextPolygonState /\ ~canBecomePolygon(element)
  THEN [ret |-> NullResult, element |-> element]
  ELSE [ret |-> [null |-> FALSE, polygon |-> nextPolygonState,
                 points |-> IF nextPolygonState
                            THEN ClosedPoints(element.points)
                            ELSE element.points],
        element |-> element]

\* corners of the lines: the origin, two points at distance 20 and just
\* over 20 from it, and a far one
TogglePoints == {<<0, 0>>, <<12, 16>>, <<13, 16>>, <<40, 0>>}

\* the point sequences of a line: one point to MaxTogglePoints points
ToggleLines ==
  UNION {[1..n -> TogglePoints] : n \in 1..MaxTogglePoints}

\* a line with these points, already a polygon or not, for which the
\* topology predicate answers eligible
ToggleElement(points, polygon, eligible) ==
  [type |-> "line", points |-> points, polygon |-> polygon,
   canBecomePolygon |-> eligible]

InitToggle ==
  /\ AtRest
  /\ callIn \in {[pc |-> "toggle",
                   element |-> ToggleElement(points, polygon, eligible),
                   nextPolygonState |-> next] :
                    points \in ToggleLines, polygon \in BOOLEAN,
                    eligible \in BOOLEAN, next \in BOOLEAN}
  /\ callOut = NoCall

TogglePolygon ==
  /\ callIn.pc = "toggle"
  /\ callOut.pc = "none"
  /\ \E r \in {toggleLinePolygonState(callIn.element,
                                        callIn.nextPolygonState)} :
       callOut' = [pc |-> "toggled", ret |-> r.ret, element |-> r.element]
  /\ UNCHANGED <<elements, cache, canvasCache, last, origin, stored,
                 arrowIn, arrowOut, callIn,
                 appState>>

NextToggle == TogglePolygon

SpecToggle == InitToggle /\ [][NextToggle]_vars

----------------------------------------------------------------------------
(* The collision shape resolver on top of the cache *)

\* what indexing yields where there is nothing to index
UndefinedPrimitive == [shape |-> "undefined"]

\* ShapeCache.get(element)?.[0]: undefined for a missing entry, for the
\* no-geometry marker, for an empty list and for what is not a list
OptionalIndexZero(shape) ==
  IF shape.kind = "list" /\ Len(shape.ds) > 0
  THEN shape.ds[1]
  ELSE UndefinedPrimitive

\* shape[0]: indexing the no-geometry marker raises a TypeError
IndexZero(shape) ==
  IF shape.kind \in {"null", "throw"}
  THEN [shape |-> "throw"]
  ELSE OptionalIndexZero(shape)

\* the hit-test shape: the builder called, the primitive handed to it (for
\* the curve builders), both caches as the call leaves them, how often the
\* shape cache was read and how often the generator ran
CollisionShape(builder, roughShape, c, cc, reads, generated) ==
  [builder |-> builder, roughShape |-> roughShape, cache |-> c,
   canvasCache |-> cc, reads |-> reads, generated |-> generated]

\* the right-hand side of ??: ShapeCache.generateElementShape(element,
\* null)[0], r being what that call did
ResolvedByGenerate(r) ==
  CollisionShape("curve", IndexZero(r.ret), r.cache, r.canvasCache, 2,
                 r.generated)

getElementShape(c, cc, element) ==
  CASE element.type \in {"rectangle", "diamond", "frame", "magicframe",
                         "embeddable", "image", "iframe", "text",
                         "selection", "cube", "rectangularPrism"} ->
         CollisionShape("polygon", UndefinedPrimitive, c, cc, 0, 0)
    [] element.type \in {"arrow", "line"} ->
         IF OptionalIndexZero(ShapeCache_get(c, element.id))
              # UndefinedPrimitive
         THEN CollisionShape("curve",
                OptionalIndexZero(ShapeCache_get(c, element.id)),
                c, cc, 1, 0)
         ELSE ResolvedByGenerate(
                ShapeCache_generateElementShape(c, cc, element, NullArg))
    [] element.type = "ellipse" ->
         CollisionShape("ellipse", UndefinedPrimitive, c, cc, 0, 0)
    [] element.type = "freedraw" ->
         CollisionShape("freedraw", UndefinedPrimitive, c, cc, 0, 0)

\* the elements hit-tested: a line, an arrow with a head, an elbow arrow,
\* an elbow arrow with a point beyond the sanity bound, and elements of
\* the other builders
CollisionKinds ==
  << "line", "elbowFar", "arrow", "rectangle", "elbow", "ellipse",
     "freedraw", "text" >>

CollisionElementOf(kind, id) ==
  CASE kind = "elbow" ->
         [BaseElement(id, "arrow") EXCEPT
            !.elbowed = TRUE, !.points = << <<0, 0>>, <<40, 0>> >>]
    [] kind = "elbowFar" ->
         [BaseElement(id, "arrow") EXCEPT
            !.elbowed = TRUE,
            !.points = << <<0, 0>>, <<ElbowLimit + Overshoot, 0>> >>]
    [] OTHER -> BaseElement(id, kind)

\* the scenes tile the list of kinds, one kind per identity
CollisionElement(k, id) ==
  CollisionElementOf(
    CollisionKinds[((NumElements * (k - 1) + id - 1) % Len(CollisionKinds))
                     + 1], id)

CollisionScenes ==
  1..((Len(CollisionKinds) + NumElements - 1) \div NumElements)

\* the renderer's calls between hit tests: with no configuration, and on a
\* black canvas
CollisionArgs ==
  {NullArg,
   [isNull |-> FALSE,
    config |-> [DefaultRenderConfig EXCEPT
                  !.canvasBackgroundColor = "#000000"]]}

InitCollision ==
  /\ \E k \in CollisionScenes :
       elements = [id \in Ids |-> CollisionElement(k, id)]
  /\ cache = [id \in Ids |-> Undefined]
  /\ canvasCache = {}
  /\ last = Last("init", 1, Undefined)
  /\ origin = [id \in Ids |-> "none"]
  /\ stored = [id \in Ids |-> Undefined]
  /\ arrowIn = NoArrowIn
  /\ arrowOut = NoArrowOut
  /\ callIn = NoCall
  /\ callOut = NoCall
  /\ appState = DefaultAppState

\* getElementShape on element e; callOut keeps the result and the entry
\* the cache held before the call
Resolve(e) ==
  \E r \in {getElementShape(cache, canvasCache, elements[e])} :
    /\ cache' = r.cache
    /\ canvasCache' = r.canvasCache
    /\ origin' = IF r.generated > 0
                 THEN [origin EXCEPT ![e] = "generated"] ELSE origin
    /\ stored' = IF r.generated > 0
                 THEN [stored EXCEPT ![e] = r.cache[e]] ELSE stored
    /\ last' = Last("resolve", e, Undefined)
    /\ callOut' = [pc |-> "resolved", id |-> e, builder |-> r.builder,
                   roughShape |-> r.roughShape, reads |-> r.reads,
                   generated |-> r.generated, before |-> cache]
    /\ UNCHANGED <<elements, arrowIn, arrowOut, callIn,
                 appState>>

NextCollision ==
  \/ \E e \in Ids : Resolve(e)
  \/ \E e \in Ids : \E arg \in CollisionArgs : GetOrGenerate(e, arg)
  \/ \E e \in Ids : Delete(e)
  \/ \E e \in Ids : CanvasCacheSet(e)

SpecCollision == InitCollision /\ [][NextCollision]_vars

----------------------------------------------------------------------------
(* Generation for iframe-like elements: the element before and after *)

\* the substitution written into the element itself
ElementAfterGenerate_Substituted(element, renderConfig) ==
  modifyIframeLikeForRoughOptions(element, renderConfig.isExporting,
                                  renderConfig.embedsValidationStatus)

\* the element as generateElementShape leaves it: the substitution spreads
\* the element into a new object, and no branch assigns to the element
ElementAfterGenerate(element, renderConfig) == element

IframeTypes == {"iframe", "embeddable", "rectangle"}

\* elements with each colour transparent or not
IframeElements ==
  {[BaseElement(1, type) EXCEPT
      !.strokeColor = stroke, !.backgroundColor = background,
      !.roughness = roughness, !.fillStyle = fillStyle,
      !.roundness = round] :
     type \in IframeTypes, stroke \in {"transparent", "#1e1e1e"},
     background \in {"transparent", "#ffc9c9"},
     roughness \in Roughnesses, fillStyle \in {"solid", "hachure"},
     round \in BOOLEAN}

\* no validation map, a map without the element, a map with it validated
IframeValidationStatuses ==
  {NullValidationStatus, [isNull |-> FALSE, validated |-> {}],
   [isNull |-> FALSE, validated |-> {1}]}

InitIframe ==
  /\ AtRest
  /\ callIn \in {[pc |-> "iframe", element |-> el,
                   renderConfig |->
                     [DefaultRenderConfig EXCEPT
                        !.isExporting = exporting,
                        !.embedsValidationStatus = status]] :
                    el \in IframeElements, exporting \in BOOLEAN,
                    status \in IframeValidationStatuses}
  /\ callOut = NoCall

\* generateElementShape on the element; modified is what its call of
\* modifyIframeLikeForRoughOptions returned
GenerateIframe ==
  /\ callIn.pc = "iframe"
  /\ callOut.pc = "none"
  /\ callOut' =
       [pc |-> "generated",
        element |-> ElementAfterGenerate(callIn.element,
                                         callIn.renderConfig),
        modified |-> modifyIframeLikeForRoughOptions(callIn.element,
                       callIn.renderConfig.isExporting,
                       callIn.renderConfig.embedsValidationStatus),
        shape |-> generateElementShape(callIn.element,
                                       callIn.renderConfig)]
  /\ UNCHANGED <<elements, cache, canvasCache, last, origin, stored,
                 arrowIn, arrowOut, callIn,
                 appState>>

NextIframe == GenerateIframe

SpecIframe == InitIframe /\ [][NextIframe]_vars

----------------------------------------------------------------------------
(* Presentation mode: the four actions on the application state.  The     *)
(* scene is the list `elements`; callOut keeps what the last action was   *)
(* given and what it asked of the application.                            *)

isFrameLikeElement(element) == element.type \in {"frame", "magicframe"}

IsNotDeleted(element) == ~element.isDeleted

getNonDeletedElements(els) == SelectSeq(els, IsNotDeleted)

\* a comparator that looks at y alone
compareFrames_ByRowOnly(a, b) == a.y - b.y

\* the comparator of the sort: by x when the rows are less than 100 apart,
\* by y otherwise
compareFrames(a, b) ==
  IF Abs(a.y - b.y) < 100 THEN a.x - b.x ELSE a.y - b.y

\* the comparator is a consistent comparator for the values of the list:
\* comparing equal and sorting before are each transitive
IsConsistentOn(frames) ==
  \A i, j, k \in 1..Len(frames) :
    /\ (compareFrames(frames[i], frames[j]) = 0
          /\ compareFrames(frames[j], frames[k]) = 0)
         => compareFrames(frames[i], frames[k]) = 0
    /\ (compareFrames(frames[i], frames[j]) < 0
          /\ compareFrames(frames[j], frames[k]) < 0)
         => compareFrames(frames[i], frames[k]) < 0

\* the number of entries of the sorted list that stay before the item: those
\* that sort before it or compare equal to it
KeptBefore(sorted, item) ==
  Cardinality({i \in 1..Len(sorted) : compareFrames(sorted[i], item) <= 0})

InsertAt(sorted, item, n) ==
  SubSeq(sorted, 1, n) \o <<item>> \o SubSeq(sorted, n + 1, Len(sorted))

InsertSorted(sorted, item) == InsertAt(sorted, item, KeptBefore(sorted, item))

\* the sorted list under a consistent comparator: equal values keep the
\* order they came in
RECURSIVE StableSort(_)
StableSort(frames) ==
  IF Len(frames) = 0 THEN <<>>
  ELSE InsertSorted(StableSort(SubSeq(frames, 1, Len(frames) - 1)),
                    frames[Len(frames)])

PermutationsOf(frames) ==
  {[i \in 1..Len(frames) |-> frames[p[i]]] :
     p \in {q \in [1..Len(frames) -> 1..Len(frames)] :
              \A i, j \in 1..Len(frames) : q[i] = q[j] => i = j}}

\* Array.prototype.sort: the stable sorted order when the comparator is
\* consistent, and an order the engine is free to choose when it is not
SortOutcomes(frames) ==
  IF IsConsistentOn(frames)
  THEN {StableSort(frames)}
  ELSE PermutationsOf(frames)

\* the orders the call may return for these elements
getOrderedFramesForPresentation(els) ==
  SortOutcomes(SelectSeq(els, isFrameLikeElement))

FrameIds(frames) == [i \in 1..Len(frames) |-> frames[i].id]

\* the application state enterPresentation returns for the sorted frames
EnterAppState(state, frames) ==
  IF Len(frames) = 0
  THEN [state EXCEPT !.toast = "No frames found"]
  ELSE [state EXCEPT
          !.presentationMode = TRUE,
          !.presentationFrameIndex = 0,
          !.presentationFrameIds = FrameIds(frames),
          !.viewModeEnabled = TRUE,
          !.zenModeEnabled = TRUE,
          !.openSidebar = "null",
          !.openDialog = "null",
          !.openMenu = "null"]

\* an exit that leaves view mode and zen mode as they are
ExitAppState_KeepsModes(state) ==
  [state EXCEPT
     !.presentationMode = FALSE,
     !.presentationFrameIndex = 0,
     !.presentationFrameIds = <<>>]

\* the application state exitPresentation returns
ExitAppState(state) ==
  [state EXCEPT
     !.presentationMode = FALSE,
     !.presentationFrameIndex = 0,
     !.presentationFrameIds = <<>>,
     !.viewModeEnabled = FALSE,
     !.zenModeEnabled = FALSE]

\* the next index without the cap at the last frame
nextIndex_Uncapped(state) == state.presentationFrameIndex + 1

nextIndex(state) ==
  Min(state.presentationFrameIndex + 1, Len(state.presentationFrameIds) - 1)

\* a previous index that jumps to the first frame
prevIndex_ToFirst(state) == 0

prevIndex(state) == Max(state.presentationFrameIndex - 1, 0)

\* the guard both stepping actions start with
CannotStep(state) ==
  ~state.presentationMode \/ Len(state.presentationFrameIds) = 0

\* the application state a stepping action returns for the index it computed
SteppedAppState(state, index) ==
  IF CannotStep(state) \/ index = state.presentationFrameIndex
  THEN state
  ELSE [state EXCEPT !.presentationFrameIndex = index]

\* the frame a stepping action scrolls to: elements.find by the id at the
\* index, when the action goes that far, the list has an id there and the
\* scene has such an element
SteppedScroll(els, state, index) ==
  IF CannotStep(state) \/ index = state.presentationFrameIndex
  THEN "none"
  ELSE IF /\ index + 1 \in 1..Len(state.presentationFrameIds)
          /\ \E i \in 1..Len(els) :
               els[i].id = state.presentationFrameIds[index + 1]
  THEN state.presentationFrameIds[index + 1]
  ELSE "none"

\* what the last action was, the state it was given, the frame it asked
\* the application to scroll to, and view and zen mode as they were before
\* the presentation was entered
ActionRecord(name, before, scrolledTo, preEnter) ==
  [pc |-> name, before |-> before, scrolledTo |-> scrolledTo,
   preEnter |-> preEnter]

NotEntered == [entered |-> FALSE]

ModesOf(state) ==
  [entered |-> TRUE, viewModeEnabled |-> state.viewModeEnabled,
   zenModeEnabled |-> state.zenModeEnabled]

\* the elements a scene is made of: a frame, a magicframe and a frame over
\* three rows 60 apart, each further left than the one above, a rectangle
\* and a deleted frame
PresentationKinds ==
  {[type |-> "frame", x |-> 10, y |-> 0, isDeleted |-> FALSE],
   [type |-> "frame", x |-> 0, y |-> 120, isDeleted |-> FALSE],
   [type |-> "magicframe", x |-> 5, y |-> 60, isDeleted |-> FALSE],
   [type |-> "rectangle", x |-> 0, y |-> 0, isDeleted |-> FALSE],
   [type |-> "frame", x |-> 0, y |-> 0, isDeleted |-> TRUE]}

PresentationElement(kind, id) ==
  [id |-> id, type |-> kind.type, x |-> kind.x, y |-> kind.y,
   isDeleted |-> kind.isDeleted]

\* the scenes: up to MaxSceneElements elements, the identity of each its
\* place in the list
PresentationScenes ==
  UNION {{[i \in 1..n |-> PresentationElement(kinds[i], i)] :
            kinds \in [1..n -> PresentationKinds]} :
           n \in 0..MaxSceneElements}

InitPresentation ==
  /\ elements \in PresentationScenes
  /\ appState \in {[DefaultAppState EXCEPT
                       !.viewModeEnabled = mode, !.zenModeEnabled = mode,
                       !.openSidebar = "library"] :
                      mode \in BOOLEAN}
  /\ callOut = ActionRecord("none", DefaultAppState, "none", NotEntered)
  /\ callIn = NoCall
  /\ cache = [id \in Ids |-> Undefined]
  /\ canvasCache = {}
  /\ last = Last("init", 1, Undefined)
  /\ origin = [id \in Ids |-> "none"]
  /\ stored = [id \in Ids |-> Undefined]
  /\ arrowIn = NoArrowIn
  /\ arrowOut = NoArrowOut

\* actionEnterPresentation.perform
EnterPresentation ==
  /\ \E frames \in getOrderedFramesForPresentation(
                      getNonDeletedElements(elements)) :
       /\ appState' = EnterAppState(appState, frames)
       /\ callOut' =
            IF Len(frames) = 0
            THEN ActionRecord("enter", appState, "none", callOut.preEnter)
            ELSE ActionRecord("enter", appState, frames[1].id,
                              ModesOf(appState))
  /\ UNCHANGED <<elements, cache, canvasCache, last, origin, stored,
                 arrowIn, arrowOut, callIn>>

\* actionExitPresentation.perform
ExitPresentation ==
  /\ appState' = ExitAppState(appState)
  /\ callOut' = ActionRecord("exit", appState, "none", callOut.preEnter)
  /\ UNCHANGED <<elements, cache, canvasCache, last, origin, stored,
                 arrowIn, arrowOut, callIn>>

\* actionNextPresentationFrame.perform
NextPresentationFrame ==
  /\ appState' = SteppedAppState(appState, nextIndex(appState))
  /\ callOut' =
       ActionRecord("next", appState,
         SteppedScroll(elements, appState, nextIndex(appState)),
         callOut.preEnter)
  /\ UNCHANGED <<elements, cache, canvasCache, last, origin, stored,
                 arrowIn, arrowOut, callIn>>

\* actionPrevPresentationFrame.perform
PrevPresentationFrame ==
  /\ appState' = SteppedAppState(appState, prevIndex(appState))
  /\ callOut' =
       ActionRecord("prev", appState,
         SteppedScroll(elements, appState, prevIndex(appState)),
         callOut.preEnter)
  /\ UNCHANGED <<elements, cache, canvasCache, last, origin, stored,
                 arrowIn, arrowOut, callIn>>

NextPresentation ==
  \/ EnterPresentation
  \/ ExitPresentation
  \/ NextPresentationFrame
  \/ PrevPresentationFrame

SpecPresentation == InitPresentation /\ [][NextPresentation]_vars

----------------------------------------------------------------------------
(* Claims about the cache *)

NonExportingArgs ==
  {arg \in RenderConfigArgs : arg.isNull \/ ~arg.config.isExporting}

ExportingArgs == RenderConfigArgs \ NonExportingArgs

\* geometry the generator produces for the element as it is now
FreshShapes(element) ==
  {generateElementShape(element, rc) : rc \in RenderConfigs}

\* geometry the generator produces for other values of the element's
\* geometry-affecting fields
OutdatedShapes(element) ==
  {generateElementShape(EditedElement(element, w), rc) :
     w \in EditWidths \ {element.width}, rc \in RenderConfigs}

\* the shape was generated from field values the element no longer has
Stale(shape, element) ==
  shape \in OutdatedShapes(element) /\ shape \notin FreshShapes(element)

\* C1 as stated: a non-exporting getOrGenerate(e) never returns geometry
\* generated from values of e's geometry-affecting fields that differ from
\* e's current values, whatever edits and cache operations (set included)
\* came before.
C1_NeverServesStale ==
  (last.op = "getOrGenerate" /\ ~last.isExporting)
    => ~Stale(last.ret, elements[last.id])

\* C1 amended: a non-exporting getOrGenerate(e) returns geometry generated
\* from outdated field values only when a caller stored that geometry with
\* set after e's last edit; no entry made by getOrGenerate outlives an edit.
C1_StaleOnlyBySet ==
  /\ (last.op = "getOrGenerate" /\ ~last.isExporting
        /\ Stale(last.ret, elements[last.id]))
       => origin[last.id] = "set"
  /\ \A e \in Ids :
       origin[e] # "set" => ~Stale(cache[e], elements[e])

\* C1 witness: after an edit the element was generated anew and a later
\* non-exporting call was served that entry from the cache.
C1_Witness ==
  /\ last.op = "getOrGenerate" /\ ~last.isExporting /\ last.generated = 0
  /\ elements[last.id].width = 80
  /\ origin[last.id] = "generated"
  /\ last.ret \in FreshShapes(elements[last.id])
  /\ last.ret \notin OutdatedShapes(elements[last.id])

\* the call of generateElementShape on element e in the present state
CallOn(e, arg) ==
  ShapeCache_generateElementShape(cache, canvasCache, elements[e], arg)

\* C2: with a null or non-exporting render context, getOrGenerate(e) on an
\* element that has an entry (the no-geometry marker included) returns that
\* entry, does not run the generator, and leaves the shape cache and the
\* bitmap cache as they are.
C2_HitReturnsEntry ==
  \A e \in Ids : \A arg \in NonExportingArgs :
    cache[e] # Undefined =>
      \A r \in {CallOn(e, arg)} :
        /\ r.ret = cache[e]
        /\ r.generated = 0
        /\ r.cache = cache
        /\ r.canvasCache = canvasCache

\* C2 witness: a non-exporting call was served the no-geometry marker, with
\* the element's bitmap entry still in place.
C2_Witness ==
  /\ last.op = "getOrGenerate" /\ ~last.isExporting
  /\ last.generated = 0 /\ last.ret = NullShape
  /\ cache[last.id] = NullShape
  /\ last.id \in canvasCache

\* C3: with isExporting = true every getOrGenerate(e) runs the generator,
\* entry or not, returns the geometry just generated and stores it as e's
\* entry, the other entries staying as they are.
C3_ExportAlwaysRegenerates ==
  \A e \in Ids : \A arg \in ExportingArgs :
    \A r \in {CallOn(e, arg)} :
      /\ r.generated = 1
      /\ r.ret = generateElementShape(elements[e], arg.config)
      /\ r.cache[e] = r.ret
      /\ \A i \in Ids \ {e} : r.cache[i] = cache[i]

\* C3 witness: an exporting call ran the generator for an element whose
\* present entry, the one it stored, differs from what a non-exporting
\* generation gives.
C3_Witness ==
  /\ last.op = "getOrGenerate" /\ last.isExporting /\ last.generated = 1
  /\ cache[last.id] = last.ret
  /\ last.ret # generateElementShape(elements[last.id], DefaultRenderConfig)

\* an immediately following non-exporting call on the state r leaves behind
FollowUp(r, e, arg) ==
  ShapeCache_generateElementShape(r.cache, r.canvasCache, elements[e], arg)

\* C4: on a cache miss getOrGenerate(e) deletes e's bitmap entry, runs the
\* generator once (with the default context, not exporting, white, no
\* validation data, when the context is null), stores the result and
\* returns it, in this order; a non-exporting getOrGenerate(e) right after
\* returns the same result and generates nothing.
C4_MissGeneratesOnce ==
  \A e \in Ids : \A arg \in RenderConfigArgs :
    cache[e] = Undefined =>
      \A r \in {CallOn(e, arg)} :
        /\ r.trace = <<"canvasDelete", "generate", "store", "return">>
        /\ r.generated = 1
        /\ e \notin r.canvasCache
        /\ arg.isNull =>
             /\ ~r.used.isExporting
             /\ r.used.canvasBackgroundColor = "#ffffff"
             /\ r.used.embedsValidationStatus.isNull
        /\ r.ret = generateElementShape(elements[e], r.used)
        /\ r.cache[e] = r.ret
        /\ \A arg2 \in NonExportingArgs :
             \A r2 \in {FollowUp(r, e, arg2)} :
               r2.ret = r.ret /\ r2.generated = 0

\* C4 witness: a call with a null context missed, generated with the default
\* context and stored what it returned.
C4_Witness ==
  /\ last.op = "getOrGenerate" /\ last.isNull /\ last.generated = 1
  /\ last.usedDefault
  /\ last.trace = <<"canvasDelete", "generate", "store", "return">>
  /\ cache[last.id] = last.ret
  /\ last.ret # NullShape
  /\ last.id \notin canvasCache

\* C5: the cache is a map keyed by element identity: at every step the
\* entries are the values last stored by set or getOrGenerate and not
\* deleted or destroyed since; get returns that value and changes nothing,
\* delete(e) changes e's entry only, destroy leaves no entry.
C5_MapSemantics ==
  [][/\ cache' = stored'
     /\ last'.op = "get" =>
          /\ last'.ret = stored[last'.id]
          /\ UNCHANGED <<cache, canvasCache, elements,
                 appState>>
     /\ last'.op = "delete" =>
          /\ cache'[last'.id] = Undefined
          /\ \A i \in Ids \ {last'.id} : cache'[i] = cache[i]
     /\ last'.op = "destroy" =>
          \A i \in Ids : cache'[i] = Undefined]_vars

\* C5 witness: get returned a stored value for one element while another
\* element, whose entry had been deleted, holds none.
C5_Witness ==
  /\ last.op = "get" /\ last.ret # Undefined
  /\ \E i \in Ids \ {last.id} :
       cache[i] = Undefined /\ elements[i].width = 80

\* C6: the generator returns the no-geometry marker for frame, magicframe,
\* text and image elements and raises no unimplemented-type error; once
\* getOrGenerate has cached the marker, get returns null, not undefined.
C6_NoGeometryMarker ==
  \A e \in Ids :
    elements[e].type \in NoGeometryTypes =>
      /\ \A rc \in RenderConfigs :
           generateElementShape(elements[e], rc) = NullShape
      /\ origin[e] = "generated" =>
           /\ ShapeCache_get(cache, e) = NullShape
           /\ ShapeCache_get(cache, e) # Undefined
      /\ (last.op = "get" /\ last.id = e /\ origin[e] = "generated") =>
           last.ret = NullShape

\* C6 witness: get on an image whose marker getOrGenerate cached.
C6_Witness ==
  /\ last.op = "get" /\ last.ret = NullShape
  /\ elements[last.id].type = "image"
  /\ origin[last.id] = "generated"

----------------------------------------------------------------------------
(* Claims about arrows *)

\* some coordinate of the points lies beyond the sanity bound
BeyondLimit(points) ==
  \E i \in 1..Len(points) : \E k \in 1..2 :
    points[i][k] > 1000000 \/ points[i][k] < -1000000

\* the generated shape is a list whose first primitive is the elbow path
IsElbowPathShape(shape, points) ==
  /\ shape.kind = "list"
  /\ Len(shape.ds) >= 1
  /\ shape.ds[1].shape = "path"
  /\ shape.ds[1].d = generateElbowArrowShape(points, 16)

\* C7: for an elbow arrow with a point coordinate of absolute value above
\* 1,000,000 the generator returns the empty list (no body, no arrowhead
\* primitive) and does not throw; with every coordinate within the bound,
\* the value 1,000,000 itself included, it returns the elbow path.
C7_ElbowLimit ==
  (arrowOut.pc = "generated" /\ isElbowArrow(arrowIn.element)) =>
    IF BeyondLimit(arrowIn.element.points)
    THEN arrowOut.shape = Shape("list", <<>>)
    ELSE IsElbowPathShape(arrowOut.shape, arrowIn.element.points)

\* C7 witness: an elbow arrow with arrowheads at both ends and a coordinate
\* of 1,000,001 was generated as the empty list.
C7_Witness ==
  /\ arrowOut.pc = "generated" /\ isElbowArrow(arrowIn.element)
  /\ arrowIn.element.points = << <<0, 0>>, <<1000000, 0>>,
                                  <<1000000, 1000001>> >>
  /\ arrowIn.element.startArrowhead = "arrow"
  /\ arrowIn.element.endArrowhead = "dot"
  /\ arrowOut.shape = Shape("list", <<>>)

\* the primitives drawn at the end of the arrow, in order
IsEndPrimitive(d) == d.geom.position = "end"

EndPrimitives(shape) == SelectSeq(shape.ds, IsEndPrimitive)

\* dash pattern and roughness of a list of primitives
StyleOf(ds) ==
  [i \in 1..Len(ds) |->
     [strokeLineDash |-> ds[i].options.strokeLineDash,
      roughness |-> ds[i].options.roughness]]

EndStyle(shape) == StyleOf(EndPrimitives(shape))

\* the shape of the arrow had its start arrowhead been `startArrowhead`
ShapeWithStart(input, startArrowhead) ==
  generateElementShape(
    [input.element EXCEPT !.startArrowhead = startArrowhead],
    ArrowRenderConfig(input.canvasBackgroundColor))

\* C8: for an arrow with a start and an end arrowhead, the dash pattern and
\* roughness of the end arrowhead's primitives are those the arrow would get
\* with no start arrowhead or with a start arrowhead of any other kind.
C8_EndIndependentOfStart ==
  (/\ arrowOut.pc = "generated"
   /\ StartArrowheadOf(arrowIn.element) # "null"
   /\ EndArrowheadOf(arrowIn.element) # "null") =>
    \A other \in ArrowheadKinds \cup {"null"} :
      EndStyle(arrowOut.shape) = EndStyle(ShapeWithStart(arrowIn, other))

\* the dash an arrowhead primitive may carry: none, or the tightened dots
\* for a wing kind on a dotted body
AllowedDash(element, arrowhead) ==
  IF arrowhead \in {"bar", "arrow", "crowfoot_many", "crowfoot_one_or_many"}
       /\ element.strokeStyle = "dotted"
  THEN {<<>>, <<9, 30 + (element.strokeWidth - 6)>>}
  ELSE {<<>>}

\* the roughness bound of an arrowhead kind: 0.5 for circles, 1 otherwise
RoughnessCap(arrowhead) ==
  IF arrowhead \in {"dot", "circle", "circle_outline"} THEN 3 ELSE 6

\* C9: for every arrowhead kind the primitives of the arrowhead carry options
\* whose dash is cleared (or tightened dots for a wing kind on a dotted
\* body) and whose roughness is clamped (0.5 for circles, 1 otherwise).
C9_ArrowheadsSolidAndClamped ==
  arrowOut.pc = "step" =>
    \A i \in 1..Len(arrowOut.step.shapes) :
      /\ arrowOut.step.shapes[i].options.strokeLineDash
           \in AllowedDash(arrowIn.element,
                           ArrowheadOf(arrowIn.element, arrowOut.position))
      /\ arrowOut.step.shapes[i].options.roughness
           <= RoughnessCap(ArrowheadOf(arrowIn.element, arrowOut.position))

\* the resolver's answer for the arrowhead the step was applied to
ResolvedAt(input, position, options) ==
  getArrowheadPoints(input.element, LineBody(input.element, options),
                     position, ArrowheadOf(input.element, position))

\* C10: when the arrowhead point resolver returns null (a line of fewer than
\* two effective points) the arrowhead step gives the empty list for every
\* arrowhead kind and leaves the options object as it was passed.
C10_DegenerateLineNoArrowhead ==
  (/\ arrowOut.pc = "step"
   /\ ResolvedAt(arrowIn, arrowOut.position, arrowOut.before).isNull) =>
    /\ arrowOut.step.shapes = <<>>
    /\ arrowOut.step.options = arrowOut.before

\* C10 witness: the step for crowfoot_one_or_many on a dotted, rough line of
\* one point gave nothing and left dash and roughness in the options.
C10_Witness ==
  /\ arrowOut.pc = "step"
  /\ Len(arrowIn.element.points) = 1
  /\ arrowIn.element.strokeStyle = "dotted"
  /\ arrowIn.element.roughness = 12
  /\ ArrowheadOf(arrowIn.element, arrowOut.position) = "crowfoot_one_or_many"
  /\ arrowOut.step.shapes = <<>>
  /\ arrowOut.step.options.strokeLineDash # <<>>
  /\ arrowOut.step.options.roughness = arrowOut.before.roughness

----------------------------------------------------------------------------
(* Claims about the 3D box projector *)

Projected == callOut.pc = "projected"

\* the vertex coordinates along one axis
VertexXs(v) == {v[i].x : i \in 1..Len(v)}
VertexYs(v) == {v[i].y : i \in 1..Len(v)}

Smallest(S) == CHOOSE n \in S : \A m \in S : n <= m
Largest(S) == CHOOSE n \in S : \A m \in S : n >= m

\* C11: for every width, height and requested depth, of a cube and of a
\* rectangularPrism, the 8 projected vertices lie within [0,width] x
\* [0,height] and their bounding box is exactly [0,width] x [0,height].
C11_VerticesFillBounds ==
  Projected =>
    /\ \A x \in VertexXs(callOut.vertices) :
         0 <= x /\ x <= callIn.element.width
    /\ \A y \in VertexYs(callOut.vertices) :
         0 <= y /\ y <= callIn.element.height
    /\ Smallest(VertexXs(callOut.vertices)) = 0
    /\ Largest(VertexXs(callOut.vertices)) = callIn.element.width
    /\ Smallest(VertexYs(callOut.vertices)) = 0
    /\ Largest(VertexYs(callOut.vertices)) = callIn.element.height

IsCube(element) == element.type = "cube"

\* the signed depth d with its magnitude clamped to M
ClampedTo(d, M) == IF d >= 0 THEN Min(d, M) ELSE -Min(-d, M)

\* the vertices and offsets the box would have with the depth e
UsesDepth(element, e) ==
  /\ callOut.vertices = centeredVertices(element.width, element.height, e)
  /\ depthOffsetX(BoxDepth(element, IsCube(element)))
       = FMul(Abs(e), xScale)
  /\ depthOffsetY(BoxDepth(element, IsCube(element)))
       = FMul(Abs(e), yScale)

\* C12: for every requested depth d, d = 0 included, the depth offsets are
\* min(|d|, M) * xScale and min(|d|, M) * yScale with
\* M = 0.8 * min(width / xScale, height / yScale), and the front and back
\* faces are placed by the sign of d.
C12_DepthIsRequestedClamped ==
  (Projected /\ callIn.element.shape3d.present) =>
    UsesDepth(callIn.element,
      ClampedTo(callIn.element.shape3d.value,
        FMul(Min(FDiv(callIn.element.width, xScale),
                 FDiv(callIn.element.height, yScale)), EightTenths)))

\* the same element asking for the depth d
WithDepth(element, d) == [element EXCEPT !.shape3d = Present(d)]

\* the limit M of the depth of the element
DepthLimit(element) == maxAllowedDepth(element.width, element.height)

\* a depth beyond the limit was asked for
BeyondDepthLimit(element) ==
  element.shape3d.present /\ Abs(element.shape3d.value) > DepthLimit(element)

\* the call in progress gave what a call on the element e gives
SameOutputAs(e) ==
  /\ callOut.vertices = BoxVertices(e, IsCube(e))
  /\ callOut.shape = generateElementShape(e, DefaultRenderConfig)

\* C13: clamping is idempotent: a requested depth d with |d| > M gives the
\* same vertices and the same list of primitives as the request sign(d) * M.
C13_ClampingIdempotent ==
  (Projected /\ BeyondDepthLimit(callIn.element)) =>
    SameOutputAs(
      WithDepth(callIn.element,
        IF callIn.element.shape3d.value > 0
        THEN DepthLimit(callIn.element) ELSE -DepthLimit(callIn.element)))

\* a backward depth beyond a positive limit, on a filled box with rounded
\* outlines
C13_Witness ==
  /\ Projected /\ BeyondDepthLimit(callIn.element)
  /\ callIn.element.shape3d.value < 0
  /\ DepthLimit(callIn.element) > 0
  /\ Len(callOut.shape.ds) = 9
  /\ callOut.vertices[1] # callOut.vertices[4]

\* the vertex that takes the place of vertex i when the depth changes sign:
\* front 0, 1, 4, 5 against back 3, 2, 7, 6
Opposite(i) == <<3, 2, 1, 0, 7, 6, 5, 4>>[i + 1]

\* the edges that end at vertex i
EdgesAt(i) == {k \in 1..Len(edges) : i \in {edges[k][1], edges[k][2]}}

\* the vertices v are the vertices u with front and back exchanged
FacesExchanged(v, u) ==
  /\ \A i \in 0..7 : v[i + 1] = u[Opposite(i) + 1]
  /\ {v[i] : i \in 1..8} = {u[i] : i \in 1..8}

\* the straight strokes of the list ds run along the 12 edges between v
LinesFollowEdges(ds, v) ==
  \A k \in 1..Len(ds) :
    ds[k].shape = "line" =>
      \E e \in 1..Len(edges) :
        ds[k].points = << <<v[edges[e][1] + 1].x, v[edges[e][1] + 1].y>>,
                          <<v[edges[e][2] + 1].x, v[edges[e][2] + 1].y>> >>

PolygonPoints(v, face) == [k \in 1..4 |-> <<v[face[k] + 1].x, v[face[k] + 1].y>>]

\* the primitive is the filled polygon of the face
IsFace(drawable, v, face) ==
  /\ drawable.shape = "polygon"
  /\ drawable.points = PolygonPoints(v, face)

\* C15: with a non-transparent background the 6 face polygons stand in the
\* output list in the order back, bottom, left, right, front, top.
C15_FacesBackToFront ==
  (Projected /\ ~isTransparent(callIn.element.backgroundColor)) =>
    /\ Len(callOut.shape.ds) >= 6
    /\ IsFace(callOut.shape.ds[1], callOut.vertices, backFacePoints)
    /\ IsFace(callOut.shape.ds[2], callOut.vertices, bottomFacePoints)
    /\ IsFace(callOut.shape.ds[3], callOut.vertices, leftFacePoints)
    /\ IsFace(callOut.shape.ds[4], callOut.vertices, rightFacePoints)
    /\ IsFace(callOut.shape.ds[5], callOut.vertices, frontFacePoints)
    /\ IsFace(callOut.shape.ds[6], callOut.vertices, topFacePoints)

\* a filled face: a polygon with a fill and no stroke
IsFilledFace(drawable) ==
  drawable.shape = "polygon" /\ drawable.options.stroke = "none"

\* a stroked edge or a stroked rounded outline
IsStroke(drawable) ==
  drawable.shape \in {"line", "path"} /\ drawable.options.stroke # "none"

\* how many primitives of the list satisfy the test
FacesIn(ds) == Cardinality({i \in 1..Len(ds) : IsFilledFace(ds[i])})
LinesIn(ds) == Cardinality({i \in 1..Len(ds) : ds[i].shape = "line"})
PathsIn(ds) == Cardinality({i \in 1..Len(ds) : ds[i].shape = "path"})

\* the list is nf filled faces followed by strokes only
FacesThenStrokes(ds, nf) ==
  /\ FacesIn(ds) = nf
  /\ \A i \in 1..Len(ds) : IF i <= nf THEN IsFilledFace(ds[i])
                                      ELSE IsStroke(ds[i])

\* the strokes are 3 rounded outlines when rounded, 12 lines when not
StrokesAre(ds, rounded) ==
  IF rounded THEN PathsIn(ds) = 3 /\ LinesIn(ds) = 0
  ELSE PathsIn(ds) = 0 /\ LinesIn(ds) = 12

\* C16: every filled face comes before every stroked edge or rounded
\* outline; the list holds 6 faces exactly when the background is not
\* transparent and none otherwise, followed by 12 edge lines when no corner
\* radius applies or 3 rounded outline paths when one does.
C16_FacesBeforeStrokes ==
  Projected =>
    /\ callOut.shape.kind = "list"
    /\ FacesThenStrokes(callOut.shape.ds,
         IF isTransparent(callIn.element.backgroundColor) THEN 0 ELSE 6)
    /\ StrokesAre(callOut.shape.ds,
         cornerRadius(callIn.element,
                      BoxDepth(callIn.element, IsCube(callIn.element))) > 0)
    /\ (~callIn.element.roundness => LinesIn(callOut.shape.ds) = 12)

\* a filled box with rounded outlines: 6 faces, then 3 paths
C16_Witness ==
  /\ Projected
  /\ Len(callOut.shape.ds) = 9
  /\ IsFilledFace(callOut.shape.ds[6])
  /\ callOut.shape.ds[7].shape = "path"
  /\ callIn.element.roundnessValue.present

\* the four vertices of the face with the given vertex indices
FaceVertices(v, face) == [k \in 1..4 |-> v[face[k] + 1]]

\* the lengths of the four edges of the face
FaceEdgeLengths(q) ==
  {EdgeLength(q[1], q[2]), EdgeLength(q[2], q[3]), EdgeLength(q[3], q[4]),
   EdgeLength(q[4], q[1])}

\* the radius r is positive, at most a third of each edge length (as the
\* division rounds it) and at most half of it; no edge has length 0
RadiusFits(r, lengths) ==
  /\ r > 0
  /\ \A len \in lengths : len > 0 /\ r <= FDiv(len, 3 * One) /\ 2 * r <= len

\* some number of the path description is NaN
HasNaN(d) ==
  \E i \in 1..Len(d) : d[i].x.nan \/ d[i].y.nan \/ d[i].cx.nan \/ d[i].cy.nan

\* C17: whenever a face of the box is drawn with rounded corners, the
\* radius used for the face is positive and at most one third of the length
\* of each of its four edges, so the curves of neighbouring corners do not
\* pass each other, and no edge used for a direction has length 0.
C17_RoundedRadiusBounded ==
  Projected =>
    \A i \in 1..Len(callOut.shape.ds) :
      callOut.shape.ds[i].shape = "path" =>
        /\ ~HasNaN(callOut.shape.ds[i].d)
        /\ \E f \in 1..Len(RoundedFaces) :
             \A q \in {FaceVertices(callOut.vertices, RoundedFaces[f])} :
               /\ callOut.shape.ds[i].d
                    = createRoundedFacePath(q[1], q[2], q[3], q[4],
                        cornerRadius(callIn.element,
                          BoxDepth(callIn.element, IsCube(callIn.element))))
               /\ RadiusFits(
                    FaceRadius(q[1], q[2], q[3], q[4],
                      cornerRadius(callIn.element,
                        BoxDepth(callIn.element, IsCube(callIn.element)))),
                    FaceEdgeLengths(q))

----------------------------------------------------------------------------
(* Claims about the elbow path builder *)

Built == callOut.pc = "built"

Sign(n) == IF n > 0 THEN 1 ELSE IF n < 0 THEN -1 ELSE 0

\* the length of the axis-aligned segment between a and b
SegmentLength(a, b) == Abs(a[1] - b[1]) + Abs(a[2] - b[2])

\* the inset c = min(radius, distanceToNext / 2, distanceToPrev / 2) of
\* interior vertex i, doubled
DoubledInset(points, radius, i) ==
  Min(2 * radius,
      Min(SegmentLength(points[i], points[i + 1]),
          SegmentLength(points[i], points[i - 1])))

\* the point of the segment from `point` to `other` at distance c2 / 2 from
\* `point`, in halves
PointToward(point, other, c2) ==
  <<2 * point[1] + c2 * Sign(other[1] - point[1]),
    2 * point[2] + c2 * Sign(other[2] - point[2])>>

\* commands 2(i-1) and 2(i-1)+1 of the path round interior vertex i: a line
\* to the incoming segment, a curve with the vertex as control point to the
\* outgoing segment, both at the inset of the vertex
CornerAt(d, points, c2, i) ==
  /\ d[2 * (i - 1)].cmd = "L"
  /\ <<d[2 * (i - 1)].x, d[2 * (i - 1)].y>>
       = PointToward(points[i], points[i - 1], c2)
  /\ d[2 * (i - 1) + 1].cmd = "Q"
  /\ <<d[2 * (i - 1) + 1].cx, d[2 * (i - 1) + 1].cy>>
       = <<2 * points[i][1], 2 * points[i][2]>>
  /\ <<d[2 * (i - 1) + 1].x, d[2 * (i - 1) + 1].y>>
       = PointToward(points[i], points[i + 1], c2)

\* the distance in halves of two path points on one axis-aligned line
HalvesApart(a, b) == Abs(a[1] - b[1]) + Abs(a[2] - b[2])

\* the curve round vertex i ends on the segment to vertex i + 1 no later
\* than the line to the corner of vertex i + 1 ends
CornersDoNotPass(d, points, i) ==
  HalvesApart(<<d[2 * (i - 1) + 1].x, d[2 * (i - 1) + 1].y>>,
              <<2 * points[i][1], 2 * points[i][2]>>)
    + HalvesApart(<<d[2 * i].x, d[2 * i].y>>,
                  <<2 * points[i + 1][1], 2 * points[i + 1][2]>>)
    <= 2 * SegmentLength(points[i], points[i + 1])

\* the distance in halves from vertex i to the end of its curve
CurveInset(d, points, i) ==
  HalvesApart(<<d[2 * (i - 1) + 1].x, d[2 * (i - 1) + 1].y>>,
              <<2 * points[i][1], 2 * points[i][2]>>)

\* C18: for every interior vertex of an orthogonal point sequence the path
\* holds a line to a point of the incoming segment and a quadratic curve,
\* with the vertex as control point, to a point of the outgoing segment,
\* both at distance c = min(cornerRadius, distanceToNext / 2,
\* distanceToPrev / 2) from the vertex; so c = cornerRadius when both
\* segments are at least 2 * cornerRadius long, c = 0 when one of them has
\* length 0, and the curve of one corner never ends beyond the start of the
\* curve of the next corner.
C18_ElbowCornerInset ==
  Built =>
    /\ Len(callOut.d) = 2 * (Len(callIn.points) - 2) + 2
    /\ \A i \in 2..(Len(callIn.points) - 1) :
         /\ CornerAt(callOut.d, callIn.points,
                     DoubledInset(callIn.points, callIn.radius, i), i)
         /\ (/\ SegmentLength(callIn.points[i], callIn.points[i + 1])
                  >= 2 * callIn.radius
             /\ SegmentLength(callIn.points[i], callIn.points[i - 1])
                  >= 2 * callIn.radius)
              => CurveInset(callOut.d, callIn.points, i) = 2 * callIn.radius
         /\ (\/ SegmentLength(callIn.points[i], callIn.points[i + 1]) = 0
             \/ SegmentLength(callIn.points[i], callIn.points[i - 1]) = 0)
              => CurveInset(callOut.d, callIn.points, i) = 0
    /\ \A i \in 2..(Len(callIn.points) - 2) :
         CornersDoNotPass(callOut.d, callIn.points, i)

\* a route right 31, up 40, left 10 with radius 16: the first corner is
\* inset by 15.5, the second by 5
C18_Witness ==
  /\ Built
  /\ callIn.radius = 16
  /\ callIn.points = << <<0, 0>>, <<31, 0>>, <<31, -40>>, <<21, -40>> >>
  /\ CurveInset(callOut.d, callIn.points, 2) = 31
  /\ CurveInset(callOut.d, callIn.points, 3) = 10
  /\ <<callOut.d[3].x, callOut.d[3].y>> = <<62, -31>>

----------------------------------------------------------------------------
(* Claims about the rough options *)

OptionsBuilt == callOut.pc = "options"

\* the conditions under which the roughness is to be kept, for the larger
\* and the smaller of width and height
KeepsRoughness(element, larger, smaller) ==
  \/ (smaller >= 20 /\ larger >= 50)
  \/ (smaller >= 15 /\ element.roundness /\ canChangeRoundness(element.type))
  \/ (isLinearElement(element) /\ larger >= 50)

\* out = min(roughness / n, 2.5), in sixths
IsDampened(out, roughness, n) ==
  IF roughness >= 15 * n THEN out = 15 ELSE n * out = roughness

RoughnessRule(element, out, larger, smaller) ==
  /\ IF KeepsRoughness(element, larger, smaller)
     THEN out = element.roughness
     ELSE IsDampened(out, element.roughness, IF larger < 10 THEN 3 ELSE 2)
  /\ out <= element.roughness

\* C19: the roughness is returned unchanged when min(width, height) >= 20
\* and max(width, height) >= 50, or min >= 15 with a roundness descriptor on
\* a type that supports roundness, or the type is linear and max >= 50;
\* otherwise min(roughness / 3, 2.5) is returned when max < 10 and
\* min(roughness / 2, 2.5) when max >= 10.  The result never exceeds a
\* non-negative input.
C19_RoughnessAdjusted ==
  OptionsBuilt =>
    /\ RoughnessRule(callIn.element, callOut.roughness,
         IF callIn.element.width >= callIn.element.height
         THEN callIn.element.width ELSE callIn.element.height,
         IF callIn.element.width >= callIn.element.height
         THEN callIn.element.height ELSE callIn.element.width)
    /\ (~callOut.options.threw
          => callOut.options.roughness = callOut.roughness)

\* a 5 x 9 rectangle of roughness 8: a third of it is above 2.5
C19_Witness ==
  /\ OptionsBuilt
  /\ callIn.element.type = "rectangle"
  /\ callIn.element.width = 5 /\ callIn.element.height = 9
  /\ callIn.element.roughness = 48
  /\ callOut.options.roughness = 15

\* C20: for every stroke width w the options hold: for dashed the dash
\* pattern [8, 8 + w], multi-stroke disabled, stroke width w + 0.5; for
\* dotted the dash pattern [1.5, 6 + w], multi-stroke disabled, stroke
\* width w + 0.5; for solid no dash pattern, multi-stroke enabled, stroke
\* width w; and always fill weight w / 2 and hachure gap 4 w, from the
\* unmodified w.
C20_StrokeStyleOptions ==
  (OptionsBuilt /\ ~callOut.options.threw) =>
    /\ callIn.element.strokeStyle = "dashed" =>
         /\ callOut.options.strokeLineDash
              = <<48, 48 + callIn.element.strokeWidth>>
         /\ callOut.options.disableMultiStroke
         /\ callOut.options.strokeWidth = callIn.element.strokeWidth + 3
    /\ callIn.element.strokeStyle = "dotted" =>
         /\ callOut.options.strokeLineDash
              = <<9, 36 + callIn.element.strokeWidth>>
         /\ callOut.options.disableMultiStroke
         /\ callOut.options.strokeWidth = callIn.element.strokeWidth + 3
    /\ callIn.element.strokeStyle = "solid" =>
         /\ callOut.options.strokeLineDash = <<>>
         /\ ~callOut.options.disableMultiStroke
         /\ callOut.options.strokeWidth = callIn.element.strokeWidth
    /\ 2 * callOut.options.fillWeight = callIn.element.strokeWidth
    /\ callOut.options.hachureGap = 4 * callIn.element.strokeWidth

\* a dotted stroke of width 2: dash [1.5, 8], stroke width 2.5, fill
\* weight 1, hachure gap 8
C20_Witness ==
  /\ OptionsBuilt /\ ~callOut.options.threw
  /\ callIn.element.strokeStyle = "dotted"
  /\ callIn.element.strokeWidth = 12
  /\ callOut.options.strokeLineDash = <<9, 48>>
  /\ callOut.options.strokeWidth = 15
  /\ callOut.options.fillWeight = 6
  /\ callOut.options.hachureGap = 48

\* the types generateRoughOptions has a case for
TypesWithOptions ==
  {"rectangle", "iframe", "embeddable", "diamond", "ellipse", "cube",
   "rectangularPrism", "line", "freedraw", "arrow"}

\* C21: the option builder returns options for exactly the types rectangle,
\* iframe, embeddable, diamond, ellipse, cube, rectangularPrism, line,
\* freedraw and arrow, and signals the unimplemented-type error for every
\* other type (text, image, frame, magicframe, selection).
C21_OptionsOnlyForKnownTypes ==
  OptionsBuilt =>
    /\ callOut.options.threw <=> callIn.element.type \notin TypesWithOptions
    /\ callIn.element.type \notin TypesWithOptions =>
         callIn.element.type
           \in {"text", "image", "frame", "magicframe", "selection"}

\* a magicframe reached the builder and the error was signalled
C21_Witness ==
  /\ OptionsBuilt
  /\ callIn.element.type = "magicframe"
  /\ callOut.options.threw

\* a cube got its options
C21_WitnessReturned ==
  /\ OptionsBuilt
  /\ callIn.element.type = "cube"
  /\ ~callOut.options.threw

----------------------------------------------------------------------------
(* Claims about the polygon toggle *)

Toggled == callOut.pc = "toggled"

ToggledToPolygon ==
  Toggled /\ callIn.nextPolygonState /\ ~callOut.ret.null

\* the first n points of the two sequences are the same, in the same order
SameUpTo(p, q, n) == \A i \in 1..n : p[i] = q[i]

\* the rule of the claim for the points returned
ClosedAsClaimed(in, out) ==
  IF \/ FartherThanMergeDistance(in[1], in[Len(in)])
     \/ Len(in) < 4
  THEN /\ Len(out) = Len(in) + 1
       /\ SameUpTo(in, out, Len(in))
       /\ out[Len(out)] = in[1]
  ELSE /\ Len(out) = Len(in)
       /\ SameUpTo(in, out, Len(in) - 1)
       /\ out[Len(out)] = in[1]

\* C22: when toggling a line to polygon succeeds, the returned points are
\* the input points with one copy of the first point appended if the
\* first/last distance exceeds the merge distance or there are fewer than 4
\* points, and otherwise the input points with the last point replaced by
\* the first; in both cases the returned last point equals the first, all
\* other points keep value and order, polygon is true, and the element's
\* own point sequence is not modified.
C22_ToggleClosesLine ==
  ToggledToPolygon =>
    /\ ClosedAsClaimed(callIn.element.points, callOut.ret.points)
    /\ callOut.ret.points[Len(callOut.ret.points)] = callOut.ret.points[1]
    /\ callOut.ret.polygon = TRUE
    /\ callOut.element = callIn.element

\* five points whose ends are exactly the merge distance apart: the last
\* point is replaced
C22_Witness ==
  /\ ToggledToPolygon
  /\ callIn.element.points
       = <<<<0, 0>>, <<40, 0>>, <<13, 16>>, <<40, 0>>, <<12, 16>>>>
  /\ callOut.ret.points
       = <<<<0, 0>>, <<40, 0>>, <<13, 16>>, <<40, 0>>, <<0, 0>>>>

\* three points with ends farther apart than the merge distance: a point
\* is appended
C22_WitnessAppended ==
  /\ ToggledToPolygon
  /\ callIn.element.points = <<<<0, 0>>, <<12, 16>>, <<40, 0>>>>
  /\ callOut.ret.points = <<<<0, 0>>, <<12, 16>>, <<40, 0>>, <<0, 0>>>>

\* C23: the toggle returns null exactly when the requested state is polygon
\* and the topology predicate rejects the points; toggling to the
\* non-polygon state never returns null and returns polygon = false with
\* the points unchanged, a closing point added earlier included.
C23_NullOnlyWhenIneligible ==
  Toggled =>
    /\ callOut.ret.null
          <=> (callIn.nextPolygonState /\ ~canBecomePolygon(callIn.element))
    /\ ~callIn.nextPolygonState =>
         /\ ~callOut.ret.null
         /\ callOut.ret.polygon = FALSE
         /\ callOut.ret.points = callIn.element.points

\* a closed polygon the predicate would reject is toggled off: the closing
\* point stays
C23_Witness ==
  /\ Toggled /\ ~callIn.nextPolygonState
  /\ callIn.element.polygon /\ ~canBecomePolygon(callIn.element)
  /\ callIn.element.points = <<<<0, 0>>, <<40, 0>>, <<0, 0>>>>
  /\ callOut.ret.points = <<<<0, 0>>, <<40, 0>>, <<0, 0>>>>
  /\ callOut.ret.polygon = FALSE

\* three points the predicate rejects, toggled to polygon: null
C23_WitnessNull ==
  /\ Toggled /\ callIn.nextPolygonState
  /\ Len(callIn.element.points) = 3
  /\ ~canBecomePolygon(callIn.element)
  /\ callOut.ret.null

----------------------------------------------------------------------------
(* Claims about the collision shape resolver *)

\* the state right after getElementShape on element e
Resolved(e) ==
  last.op = "resolve" /\ last.id = e /\ callOut.pc = "resolved"

IsLineBody(primitive) ==
  /\ primitive # UndefinedPrimitive
  /\ primitive.shape \in {"path", "polygon", "linearPath", "curve"}
  /\ primitive.geom = BodyGeom

\* C24: for every line or arrow element, getElementShape takes the index-0
\* primitive of the element's cached geometry when an entry exists, and
\* otherwise generates the geometry through the cache, leaving an entry,
\* and takes its index-0 primitive; in every case the primitive handed to
\* the curve builder is defined and is the line body, never an arrowhead.
\* For every other type the shape cache is neither read nor changed.
C24_ResolverTakesLineBody ==
  \A e \in Ids :
    Resolved(e) =>
      IF elements[e].type \in {"line", "arrow"}
      THEN /\ callOut.before[e] # Undefined =>
                /\ callOut.generated = 0
                /\ cache = callOut.before
           /\ callOut.before[e] = Undefined =>
                /\ callOut.generated = 1
                /\ cache[e] # Undefined
           /\ callOut.roughShape = OptionalIndexZero(cache[e])
           /\ IsLineBody(callOut.roughShape)
      ELSE /\ callOut.reads = 0
           /\ cache = callOut.before

\* C24, without the elbow arrows whose points are beyond the sanity bound
C24_ExceptEmptyGeometry ==
  \A e \in Ids :
    (Resolved(e) /\ (cache[e] = Undefined \/ Len(cache[e].ds) > 0)) =>
      IF elements[e].type \in {"line", "arrow"}
      THEN /\ callOut.before[e] # Undefined =>
                /\ callOut.generated = 0
                /\ cache = callOut.before
           /\ callOut.before[e] = Undefined =>
                /\ callOut.generated = 1
                /\ cache[e] # Undefined
           /\ callOut.roughShape = OptionalIndexZero(cache[e])
           /\ IsLineBody(callOut.roughShape)
      ELSE /\ callOut.reads = 0
           /\ cache = callOut.before

\* an arrow with a head resolved from its cache entry
C24_WitnessHit ==
  \E e \in Ids :
    /\ Resolved(e) /\ elements[e].type = "arrow"
    /\ callOut.before[e] # Undefined
    /\ Len(cache[e].ds) > 1
    /\ IsLineBody(callOut.roughShape)

\* an elbow arrow beyond the sanity bound resolved: nothing to hand over
C24_WitnessUndefined ==
  \E e \in Ids :
    /\ Resolved(e) /\ isElbowArrow(elements[e])
    /\ callOut.roughShape = UndefinedPrimitive

----------------------------------------------------------------------------
(* Claims about the iframe substitution *)

IframeGenerated == callOut.pc = "generated"

\* both colours transparent, and exporting or an embeddable not validated
NeedsPlaceholder(element, renderConfig) ==
  /\ element.type \in {"iframe", "embeddable"}
  /\ element.backgroundColor = "transparent"
  /\ element.strokeColor = "transparent"
  /\ \/ renderConfig.isExporting
     \/ /\ element.type = "embeddable"
        /\ ~IsValidated(renderConfig.embedsValidationStatus, element)

\* the fields of the two records that differ
ChangedFields(a, b) == {f \in DOMAIN a : a[f] # b[f]}

\* C25: generating geometry for an iframe or embeddable element never
\* changes a field of the stored element: the placeholder-gray
\* substitution and the default iframe colour substitution are applied to
\* a copy used only for option building, and an element that needs no
\* substitution is passed through unchanged.
C25_SubstitutionLeavesElement ==
  (IframeGenerated /\ isIframeLikeElement(callIn.element)) =>
    /\ callOut.element = callIn.element
    /\ DOMAIN callOut.modified = DOMAIN callIn.element
    /\ IF NeedsPlaceholder(callIn.element, callIn.renderConfig)
       THEN /\ callOut.modified.roughness = 0
            /\ callOut.modified.backgroundColor = "#d3d3d3"
            /\ callOut.modified.fillStyle = "solid"
            /\ ChangedFields(callOut.modified, callIn.element)
                 \subseteq {"roughness", "backgroundColor", "fillStyle"}
       ELSE IF callIn.element.type = "iframe"
       THEN /\ callOut.modified.strokeColor
                 = IF callIn.element.strokeColor = "transparent"
                   THEN "#000000" ELSE callIn.element.strokeColor
            /\ callOut.modified.backgroundColor
                 = IF callIn.element.backgroundColor = "transparent"
                   THEN "#f4f4f6" ELSE callIn.element.backgroundColor
            /\ ChangedFields(callOut.modified, callIn.element)
                 \subseteq {"strokeColor", "backgroundColor"}
       ELSE callOut.modified = callIn.element
    /\ callOut.shape.ds[1].options
         = generateRoughOptions(callOut.modified, callIn.element.roundness)

\* an unvalidated transparent embeddable of roughness 1: gray placeholder
\* options, the element still transparent and rough
C25_Witness ==
  /\ IframeGenerated
  /\ callIn.element.type = "embeddable"
  /\ ~callIn.renderConfig.isExporting
  /\ callIn.element.roughness = 6
  /\ callOut.shape.ds[1].options.fill = "#d3d3d3"
  /\ callOut.shape.ds[1].options.roughness = 0
  /\ callOut.element.backgroundColor = "transparent"
  /\ callOut.element.roughness = 6

----------------------------------------------------------------------------
(* Claims about the cache and the render context *)

\* C26: for a non-exporting call, getOrGenerate(e, ctx) returns geometry
\* equal to what the shape generator produces for e under ctx, whatever
\* calls preceded it: not geometry generated for the same unchanged element
\* under another render context (an exporting call, another canvas
\* background colour, another embed validation status).
C26_ReturnsGeometryOfContext ==
  \A e \in Ids : \A arg \in NonExportingArgs :
    \A r \in {CallOn(e, arg)} :
      r.ret = generateElementShape(elements[e], ConfigOrDefault(arg))

\* the same with the entries a caller stored with set left out: only
\* entries that getOrGenerate made itself are looked at
C26_WithoutSet ==
  \A e \in Ids : \A arg \in NonExportingArgs :
    origin[e] # "set" =>
      \A r \in {CallOn(e, arg)} :
        r.ret = generateElementShape(elements[e], ConfigOrDefault(arg))

\* a call with no render context was served the entry an exporting call
\* had made, which is not the geometry of the default context
C26_ServedOtherContext ==
  /\ last.op = "getOrGenerate" /\ last.isNull
  /\ last.generated = 0
  /\ origin[last.id] = "generated"
  /\ last.ret
       # generateElementShape(elements[last.id], DefaultRenderConfig)

----------------------------------------------------------------------------
(* Claims about presentation mode *)

\* the last action performed was this one
Performed(name) == callOut.pc = name

\* the frames of the scene an enter would present
FramesOfScene ==
  SelectSeq(getNonDeletedElements(elements), isFrameLikeElement)

IndexInRange(state) ==
  /\ Len(state.presentationFrameIds) > 0
  /\ 0 <= state.presentationFrameIndex
  /\ state.presentationFrameIndex <= Len(state.presentationFrameIds) - 1

\* C27: after any sequence of the actions enter, next, prev and exit,
\* whenever presentationMode is true the list presentationFrameIds is
\* non-empty and 0 <= presentationFrameIndex <= length - 1, so the
\* overlay's slide counter stays within 1..total; enter with no frame in
\* the scene does not turn presentationMode on.
C27_IndexWithinFrames ==
  /\ appState.presentationMode => IndexInRange(appState)
  /\ (Performed("enter") /\ Len(FramesOfScene) = 0) =>
       /\ ~appState.presentationMode
       /\ appState.presentationMode = callOut.before.presentationMode

\* next was performed on the last of three frames and the index stayed
C27_Witness ==
  /\ Performed("next")
  /\ appState.presentationMode
  /\ Len(appState.presentationFrameIds) = 3
  /\ callOut.before.presentationFrameIndex = 2
  /\ appState.presentationFrameIndex = 2

\* enter was performed on a scene whose only frame is deleted
C27_WitnessNoFrames ==
  /\ Performed("enter")
  /\ Len(elements) > 0 /\ Len(FramesOfScene) = 0
  /\ \E i \in 1..Len(elements) : elements[i].type = "frame"
  /\ appState.toast # "null"
  /\ ~appState.presentationMode

CanStep(state) ==
  state.presentationMode /\ Len(state.presentationFrameIds) > 0

\* what the claim says of the state after next and after prev
StepsAsClaimed ==
  /\ Performed("next") =>
       IF /\ CanStep(callOut.before)
          /\ callOut.before.presentationFrameIndex
               < Len(callOut.before.presentationFrameIds) - 1
       THEN appState =
              [callOut.before EXCEPT
                 !.presentationFrameIndex =
                    callOut.before.presentationFrameIndex + 1]
       ELSE appState = callOut.before
  /\ Performed("prev") =>
       IF /\ CanStep(callOut.before)
          /\ callOut.before.presentationFrameIndex > 0
       THEN appState =
              [callOut.before EXCEPT
                 !.presentationFrameIndex =
                    callOut.before.presentationFrameIndex - 1]
       ELSE appState = callOut.before

C29_ExitResetsModes ==
  Performed("exit") =>
    /\ appState.presentationMode = FALSE
    /\ appState.presentationFrameIndex = 0
    /\ appState.presentationFrameIds = <<>>
    /\ appState.viewModeEnabled = FALSE
    /\ appState.zenModeEnabled = FALSE

\* a presentation entered with view mode and zen mode on was left: both
\* are off
C29_Witness ==
  /\ Performed("exit")
  /\ callOut.before.presentationMode
  /\ callOut.preEnter.entered
  /\ callOut.preEnter.viewModeEnabled /\ callOut.preEnter.zenModeEnabled
  /\ ~appState.viewModeEnabled /\ ~appState.zenModeEnabled

\* sorting before is transitive on the frames of the list
IsTransitiveOn(frames) ==
  \A i, j, k \in 1..Len(frames) :
    (compareFrames(frames[i], frames[j]) < 0
       /\ compareFrames(frames[j], frames[k]) < 0)
      => compareFrames(frames[i], frames[k]) < 0

\* the slide orders an enter may give for the list of elements
SlideOrders(els) ==
  {FrameIds(frames) :
     frames \in getOrderedFramesForPresentation(getNonDeletedElements(els))}

\* C30: the comparator that orders frames for the presentation is a
\* consistent ordering: it is transitive, and the resulting slide order
\* does not depend on the order in which the frames appear in the element
\* list.
C30_ComparatorConsistent ==
  /\ IsTransitiveOn(FramesOfScene)
  /\ \A els \in PermutationsOf(elements) :
       /\ SlideOrders(els) = SlideOrders(elements)
       /\ Cardinality(SlideOrders(els)) = 1

\* the presentation of three frames on rows 60 apart, each further left
\* than the one above, was entered: the comparator puts the second before
\* the first, the third before the second and the first before the third
C30_IntransitiveScene ==
  /\ Performed("enter") /\ appState.presentationMode
  /\ Len(FramesOfScene) = 3
  /\ compareFrames(FramesOfScene[2], FramesOfScene[1]) < 0
  /\ compareFrames(FramesOfScene[3], FramesOfScene[2]) < 0
  /\ compareFrames(FramesOfScene[1], FramesOfScene[3]) < 0

====
